---- MODULE Spec2Model ----
(***************************************************************************)
(* Recipe Parsing Helper (Obsidian plugin): the image-extraction and       *)
(* shopping-list workflows of RecipeParsingPlugin with the text scanning   *)
(* they rest on.  Strings are sequences of one-character strings; offsets  *)
(* are 0-based as in the source (slice, match.index).                      *)
(***************************************************************************)
EXTENDS Integers, Sequences, FiniteSets, TLC

\* ------------------------------------------------------------------------
\* Characters and the String methods the source uses
\* ------------------------------------------------------------------------

\* \s of a JavaScript regular expression, which is also what trim() removes
WhiteSpace == {" ", "\t", "\n", "\r", "\f"}

\* the characters after which ^ matches and before which $ matches (flag m)
LineTerminator == {"\n", "\r"}

LowerCase == <<"a","b","c","d","e","f","g","h","i","j","k","l","m",
               "n","o","p","q","r","s","t","u","v","w","x","y","z">>

UpperCase == <<"A","B","C","D","E","F","G","H","I","J","K","L","M",
               "N","O","P","Q","R","S","T","U","V","W","X","Y","Z">>

Digit == {"0","1","2","3","4","5","6","7","8","9"}

\* \w, the class \b is defined by
WordChar == {LowerCase[i] : i \in 1..26} \cup {UpperCase[i] : i \in 1..26}
              \cup Digit \cup {"_"}

\* canonicalisation of a character under flag i
Canonicalize(c) ==
  IF \E i \in 1..26 : LowerCase[i] = c
  THEN UpperCase[CHOOSE i \in 1..26 : LowerCase[i] = c]
  ELSE c

Min(S) == CHOOSE x \in S : \A y \in S : x <= y

\* content.slice(a, b) and content.slice(a)
Slice(s, a, b) == SubSeq(s, a + 1, b)

SliceFrom(s, a) == SubSeq(s, a + 1, Len(s))

\* offset of the first character at or after offset i that is in class C
\* (Len(s) when there is none): where a greedy [^C]* stops
RunEnd(s, i, C) ==
  LET J == {j \in i..(Len(s) - 1) : s[j + 1] \in C}
  IN  IF J = {} THEN Len(s) ELSE Min(J)

\* offset of the first character at or after offset i that is not in class C
\* (Len(s) when there is none): where a greedy C* stops
SpanEnd(s, i, C) ==
  LET J == {j \in i..(Len(s) - 1) : s[j + 1] \notin C}
  IN  IF J = {} THEN Len(s) ELSE Min(J)

\* the literal lit occurs in s at offset i
LitAt(s, i, lit) ==
  /\ i >= 0
  /\ i + Len(lit) <= Len(s)
  /\ \A k \in 1..Len(lit) : s[i + k] = lit[k]

\* the literal lit occurs in s at offset i, compared under flag i
LitAtIgnoreCase(s, i, lit) ==
  /\ i >= 0
  /\ i + Len(lit) <= Len(s)
  /\ \A k \in 1..Len(lit) : Canonicalize(s[i + k]) = Canonicalize(lit[k])

\* String.prototype.trim
trim(s) ==
  LET K == {k \in 1..Len(s) : s[k] \notin WhiteSpace}
  IN  IF K = {} THEN <<>>
      ELSE SubSeq(s, Min(K), CHOOSE k \in K : \A j \in K : j <= k)

\* String.prototype.startsWith
startsWith(s, lit) == LitAt(s, 0, lit)

\* "Need to buy", the heading text both workflow patterns look for
NeedToBuy == <<"N","e","e","d"," ","t","o"," ","b","u","y">>

\* ^ under flag m: at offset 0 or right after a line terminator
AtLineStart(s, i) == i = 0 \/ (i <= Len(s) /\ s[i] \in LineTerminator)

\* \b between offset i - 1 and offset i
WordBoundary(s, i) ==
  LET before == i >= 1 /\ i <= Len(s) /\ s[i] \in WordChar
      after  == i < Len(s) /\ s[i + 1] \in WordChar
  IN  before # after

\* ------------------------------------------------------------------------
\* The regular expressions of the source.  Each operator gives the offset
\* one past the match that starts at offset i, and -1 when there is no
\* match starting at i.  Every quantified class of these patterns is
\* followed by a character outside the class, so the greedy run is the only
\* candidate and no backtracking alternative exists.
\* ------------------------------------------------------------------------

\* /!\[\[[^\]]+\]\]/g
StripWikiAt(s, i) ==
  IF ~LitAt(s, i, <<"!","[","[">>) THEN -1
  ELSE LET j == RunEnd(s, i + 3, {"]"})
       IN  IF j > i + 3 /\ LitAt(s, j, <<"]","]">>) THEN j + 2 ELSE -1

\* /!\[[^\]]*\]\([^\)]+\)/g
StripMarkdownAt(s, i) ==
  IF ~LitAt(s, i, <<"!","[">>) THEN -1
  ELSE LET j == RunEnd(s, i + 2, {"]"})
           k == RunEnd(s, j + 2, {")"})
       IN  IF LitAt(s, j, <<"]","(">>) /\ k > j + 2 /\ k < Len(s)
           THEN k + 1 ELSE -1

\* /<img[^>]*>/gi
StripHtmlAt(s, i) ==
  IF ~LitAtIgnoreCase(s, i, <<"<","i","m","g">>) THEN -1
  ELSE LET j == RunEnd(s, i + 4, {">"})
       IN  IF j < Len(s) THEN j + 1 ELSE -1

\* /\[\[([^\]|#]+)(?:#[^\]|]*)?(?:\|[^\]]+)?\]\]/g : [end, end of group 1]
WikiLinkAt(s, i) ==
  IF ~LitAt(s, i, <<"[","[">>) THEN <<-1, -1>>
  ELSE LET g == RunEnd(s, i + 2, {"]","|","#"})
           h == IF LitAt(s, g, <<"#">>) THEN RunEnd(s, g + 1, {"]","|"}) ELSE g
           a == IF LitAt(s, h, <<"|">>) THEN RunEnd(s, h + 1, {"]"}) ELSE h
       IN  IF /\ g > i + 2
              /\ (LitAt(s, h, <<"|">>) => a > h + 1)
              /\ LitAt(s, a, <<"]","]">>)
           THEN <<a + 2, g>> ELSE <<-1, -1>>

\* /!\[\[([^\]|#]+)(?:#[^\]|]*)?(?:\|[^\]]+)?\]\]/g : [end, end of group 1]
WikiImageAt(s, i) ==
  IF LitAt(s, i, <<"!">>) THEN WikiLinkAt(s, i + 1) ELSE <<-1, -1>>

\* /!\[[^\]]*\]\(([^\)\s]+)(?:\s+"[^"]*")?\)/g : [end, start, end of group 1]
MarkdownImageAt(s, i) ==
  IF ~LitAt(s, i, <<"!","[">>) THEN <<-1, -1, -1>>
  ELSE LET j == RunEnd(s, i + 2, {"]"})
           g == RunEnd(s, j + 2, {")"} \cup WhiteSpace)
           w == SpanEnd(s, g, WhiteSpace)
           q == RunEnd(s, w + 1, {"\""})
           t == IF w > g /\ LitAt(s, w, <<"\"">>) /\ q < Len(s) THEN q + 1 ELSE g
       IN  IF LitAt(s, j, <<"]","(">>) /\ g > j + 2 /\ LitAt(s, t, <<")">>)
           THEN <<t + 1, j + 2, g>> ELSE <<-1, -1, -1>>

\* /^(#{1,6})\s*Need to buy\b[^\n]*$/gim : [end, length of group 1]
HeaderAt(s, i) ==
  LET h == SpanEnd(s, i, {"#"})
      w == SpanEnd(s, h, WhiteSpace)
      e == w + Len(NeedToBuy)
  IN  IF /\ AtLineStart(s, i)
         /\ h - i >= 1
         /\ h - i <= 6
         /\ LitAtIgnoreCase(s, w, NeedToBuy)
         /\ WordBoundary(s, e)
      THEN <<RunEnd(s, e, {"\n"}), h - i>> ELSE <<-1, 0>>

\* /^(#{1,6})\s+/gm : [end, length of group 1]
HeadingAt(s, i) ==
  LET h == SpanEnd(s, i, {"#"})
      w == SpanEnd(s, h, WhiteSpace)
  IN  IF AtLineStart(s, i) /\ h - i >= 1 /\ h - i <= 6 /\ w > h
      THEN <<w, h - i>> ELSE <<-1, 0>>

\* /^#\s*Need to buy/i .test(s)
ResponseHeaderTest(s) ==
  /\ LitAt(s, 0, <<"#">>)
  /\ LitAtIgnoreCase(s, SpanEnd(s, 1, WhiteSpace), NeedToBuy)

\* ------------------------------------------------------------------------
\* Scanner, sanitizer and section locator
\* ------------------------------------------------------------------------

\* content.replace(re, "") for the three patterns of stripImageEmbeds: the
\* text is scanned once, left to right, and the scan resumes after a match
RECURSIVE ReplaceAll(_, _, _)
ReplaceAll(re, s, i) ==
  IF i >= Len(s) THEN <<>>
  ELSE LET e == CASE re = "wiki"     -> StripWikiAt(s, i)
                  [] re = "markdown" -> StripMarkdownAt(s, i)
                  [] re = "html"     -> StripHtmlAt(s, i)
       IN  IF e > i THEN ReplaceAll(re, s, e)
           ELSE <<s[i + 1]>> \o ReplaceAll(re, s, i + 1)

withoutWikiImages(content) == ReplaceAll("wiki", content, 0)

\* a second pass that removes nothing
withoutMarkdownImagesKept(content) == content

withoutMarkdownImages(content) == ReplaceAll("markdown", content, 0)

withoutHtmlImages(content) == ReplaceAll("html", content, 0)

stripImageEmbeds(content) ==
  withoutHtmlImages(withoutMarkdownImages(withoutWikiImages(content)))

\* a scanner that keeps the heading and the alias in linkPath
RECURSIVE WikiImageMatchesWholeTarget(_, _)
WikiImageMatchesWholeTarget(s, i) ==
  IF i >= Len(s) THEN <<>>
  ELSE LET m == WikiImageAt(s, i)
       IN  IF m[1] > i
           THEN <<[linkPath |-> Slice(s, i + 3, m[1] - 2), start |-> i]>>
                  \o WikiImageMatchesWholeTarget(s, m[1])
           ELSE WikiImageMatchesWholeTarget(s, i + 1)

\* content.matchAll(wikiImageRegex) as ImageLinkMatch records
RECURSIVE WikiImageMatches(_, _)
WikiImageMatches(s, i) ==
  IF i >= Len(s) THEN <<>>
  ELSE LET m == WikiImageAt(s, i)
       IN  IF m[1] > i
           THEN <<[linkPath |-> Slice(s, i + 3, m[2]), start |-> i]>>
                  \o WikiImageMatches(s, m[1])
           ELSE WikiImageMatches(s, i + 1)

\* content.matchAll(markdownImageRegex) as ImageLinkMatch records
RECURSIVE MarkdownImageMatches(_, _)
MarkdownImageMatches(s, i) ==
  IF i >= Len(s) THEN <<>>
  ELSE LET m == MarkdownImageAt(s, i)
       IN  IF m[1] > i
           THEN <<[linkPath |-> Slice(s, m[2], m[3]), start |-> i]>>
                  \o MarkdownImageMatches(s, m[1])
           ELSE MarkdownImageMatches(s, i + 1)

\* a scan that runs the wiki pattern in both passes
findImageLinksWikiTwice(content) ==
  WikiImageMatches(content, 0) \o WikiImageMatches(content, 0)

findImageLinks(content) ==
  WikiImageMatches(content, 0) \o MarkdownImageMatches(content, 0)

\* a loop that takes the matches in the order findImageLinks returned them
MatchesInScanOrder(ms) == ms

\* [...matches].sort((a, b) => b.start - a.start): a stable sort, descending
RECURSIVE SortByStartDescending(_)
SortByStartDescending(ms) ==
  IF ms = <<>> THEN <<>>
  ELSE LET top == CHOOSE k \in 1..Len(ms) :
                    /\ \A j \in 1..Len(ms) : ms[j].start <= ms[k].start
                    /\ \A j \in 1..(k - 1) : ms[j].start < ms[k].start
           rest == [j \in 1..(Len(ms) - 1) |-> IF j < top THEN ms[j] ELSE ms[j + 1]]
       IN  <<ms[top]>> \o SortByStartDescending(rest)

\* content.matchAll(wikiLinkRegex), each as [index, match[1]]
RECURSIVE WikiLinkMatches(_, _)
WikiLinkMatches(s, i) ==
  IF i >= Len(s) THEN <<>>
  ELSE LET m == WikiLinkAt(s, i)
       IN  IF m[1] > i
           THEN <<[index |-> i, path |-> Slice(s, i + 2, m[2])]>>
                  \o WikiLinkMatches(s, m[1])
           ELSE WikiLinkMatches(s, i + 1)

\* the Set linkPaths of findLinkedRecipeFiles in insertion order: a match
\* preceded by "!" is skipped, a path already in the Set is not added again
RECURSIVE LinkPathSet(_, _, _)
LinkPathSet(s, ms, acc) ==
  IF ms = <<>> THEN acc
  ELSE LET m == Head(ms)
           preceding == IF m.index > 0 THEN s[m.index] ELSE ""
           skip == preceding = "!" \/ \E k \in 1..Len(acc) : acc[k] = m.path
       IN  LinkPathSet(s, Tail(ms), IF skip THEN acc ELSE Append(acc, m.path))

linkPaths(content) == LinkPathSet(content, WikiLinkMatches(content, 0), <<>>)

\* the first match of the header pattern: [index, end, level], index -1 if none
headerMatch(planContent) ==
  LET I == {i \in 0..(Len(planContent) - 1) : HeaderAt(planContent, i)[1] > i}
  IN  IF I = {} THEN [index |-> -1, end |-> -1, level |-> 0]
      ELSE [index |-> Min(I),
            end   |-> HeaderAt(planContent, Min(I))[1],
            level |-> HeaderAt(planContent, Min(I))[2]]

\* planContent.matchAll(/^(#{1,6})\s+/gm) as [index, level]
RECURSIVE HeadingMatches(_, _)
HeadingMatches(s, i) ==
  IF i >= Len(s) THEN <<>>
  ELSE LET m == HeadingAt(s, i)
       IN  IF m[1] > i
           THEN <<[index |-> i, level |-> m[2]]>> \o HeadingMatches(s, m[1])
           ELSE HeadingMatches(s, i + 1)

\* a loop that stops at the first heading after the header, whatever its level
sectionEndOfAnyLevel(planContent, afterHeaderIndex, sectionLevel) ==
  LET hs == HeadingMatches(planContent, 0)
      K  == {k \in 1..Len(hs) : hs[k].index > afterHeaderIndex}
  IN  IF K = {} THEN Len(planContent) ELSE hs[Min(K)].index

\* a loop that does not skip the headings up to the end of the header
sectionEndOfFromTop(planContent, afterHeaderIndex, sectionLevel) ==
  LET hs == HeadingMatches(planContent, 0)
      K  == {k \in 1..Len(hs) : hs[k].level <= sectionLevel}
  IN  IF K = {} THEN Len(planContent) ELSE hs[Min(K)].index

\* the loop that sets sectionEnd
sectionEndOf(planContent, afterHeaderIndex, sectionLevel) ==
  LET hs == HeadingMatches(planContent, 0)
      K  == {k \in 1..Len(hs) : /\ hs[k].index > afterHeaderIndex
                                /\ hs[k].level <= sectionLevel}
  IN  IF K = {} THEN Len(planContent) ELSE hs[Min(K)].index

\* ------------------------------------------------------------------------
\* Files, settings and the collaborators
\* ------------------------------------------------------------------------

\* null where the source has TFile | null
NoFile == [path |-> <<>>, extension |-> "none"]

TFile(path, extension) == [path |-> path, extension |-> extension]

\* getMimeType(extension)
getMimeType(extension) ==
  CASE extension \in {"jpg", "jpeg"} -> "image/jpeg"
    [] extension = "png"  -> "image/png"
    [] extension = "webp" -> "image/webp"
    [] extension = "gif"  -> "image/gif"
    [] extension = "bmp"  -> "image/bmp"
    [] OTHER -> "application/octet-stream"

\* a thrown Error: its message is text followed by arg, and by the status
\* in parentheses when status is not 0
Error(text, arg, status) == [text |-> text, arg |-> arg, status |-> status]

\* new Notice(message); linkPath is the `${match.linkPath}: ` prefix that the
\* catch block of the image loop puts before an error message
Notice(text) == [linkPath |-> <<>>, text |-> text, arg |-> <<>>, status |-> 0]

ErrorNotice(linkPath, error) ==
  [linkPath |-> linkPath, text |-> error.text, arg |-> error.arg,
   status |-> error.status]

\* what requestUrl can do: reject, or resolve with a status and a body whose
\* choices[0].message.content is a string or is not
HttpThrows == [kind |-> "throws", status |-> 0, isString |-> FALSE, content |-> <<>>]

HttpResponse(status, isString, content) ==
  [kind |-> "response", status |-> status, isString |-> isString,
   content |-> content]

\* headers built from the key as it was typed
headersFromRawKey(settings) ==
  IF settings.apiKey # <<>>
  THEN ("Content-Type" :> <<"application/json">>)
         @@ ("Authorization" :> <<"B","e","a","r","e","r"," ">> \o settings.apiKey)
  ELSE ("Content-Type" :> <<"application/json">>)

\* the headers object callLlm builds: header name -> value
headers(settings) ==
  IF trim(settings.apiKey) # <<>>
  THEN ("Content-Type" :> <<"application/json">>)
         @@ ("Authorization" :> <<"B","e","a","r","e","r"," ">> \o trim(settings.apiKey))
  ELSE ("Content-Type" :> <<"application/json">>)

\* a callLlm that checks the model before the endpoint
callLlmModelFirst(settings, messages, model, http) ==
  LET trimmedModel == trim(model)
      request == [method |-> "POST", url |-> settings.llmEndpoint,
                  headers |-> headers(settings), model |-> trimmedModel,
                  messages |-> messages]
      fail(e, reqs) == [threw |-> TRUE, error |-> e, value |-> <<>>,
                        requests |-> reqs]
  IN  IF trimmedModel = <<>>
        THEN fail(Error("Model is empty", <<>>, 0), <<>>)
      ELSE IF trim(settings.llmEndpoint) = <<>>
        THEN fail(Error("LLM endpoint is empty", <<>>, 0), <<>>)
      ELSE IF http.kind = "throws"
        THEN fail(Error("request rejected", <<>>, 0), <<request>>)
      ELSE IF http.status # 200
        THEN fail(Error("LLM request failed", <<>>, http.status), <<request>>)
      ELSE IF ~http.isString
        THEN fail(Error("Unexpected LLM response shape", <<>>, 0), <<request>>)
      ELSE [threw |-> FALSE, error |-> Error("", <<>>, 0),
            value |-> http.content, requests |-> <<request>>]

\* callLlm(messages, model) against the reply http of requestUrl: the POSTs
\* issued, and either the returned string or the Error thrown
callLlm(settings, messages, model, http) ==
  LET trimmedModel == trim(model)
      request == [method |-> "POST", url |-> settings.llmEndpoint,
                  headers |-> headers(settings), model |-> trimmedModel,
                  messages |-> messages]
      fail(e, reqs) == [threw |-> TRUE, error |-> e, value |-> <<>>,
                        requests |-> reqs]
  IN  IF trim(settings.llmEndpoint) = <<>>
        THEN fail(Error("LLM endpoint is empty", <<>>, 0), <<>>)
      ELSE IF trimmedModel = <<>>
        THEN fail(Error("Model is empty", <<>>, 0), <<>>)
      ELSE IF http.kind = "throws"
        THEN fail(Error("request rejected", <<>>, 0), <<request>>)
      ELSE IF http.status # 200
        THEN fail(Error("LLM request failed", <<>>, http.status), <<request>>)
      ELSE IF ~http.isString
        THEN fail(Error("Unexpected LLM response shape", <<>>, 0), <<request>>)
      ELSE [threw |-> FALSE, error |-> Error("", <<>>, 0),
            value |-> http.content, requests |-> <<request>>]

\* app.metadataCache.getFirstLinkpathDest(linkPath, sourcePath) over the
\* vault's link table dest
getFirstLinkpathDest(dest, linkPath) ==
  IF linkPath \in DOMAIN dest THEN dest[linkPath] ELSE NoFile

\* /^https?:\/\//i .test(s)
IsHttpUrl(s) ==
  \/ LitAtIgnoreCase(s, 0, <<"h","t","t","p",":","/","/">>)
  \/ LitAtIgnoreCase(s, 0, <<"h","t","t","p","s",":","/","/">>)

\* s.split(sep)[0]
BeforeFirst(s, sep) == Slice(s, 0, RunEnd(s, 0, {sep}))

\* a cleaning that cuts the alias and keeps the heading
cleanedOfAliasOnly(linkPath) == BeforeFirst(trim(linkPath), "|")

\* the cleaned path resolveImageFile hands to the lookup
cleaned(linkPath) == BeforeFirst(BeforeFirst(trim(linkPath), "|"), "#")

\* the arguments of one getFirstLinkpathDest(linkpath, sourceFile.path) call
Lookup(linkpath, sourceFile) ==
  [linkpath |-> linkpath, sourcePath |-> sourceFile.path]

\* a test that knows URLs in lower case only
rejectedLowerCaseOnly(trimmed) ==
  \/ trimmed = <<>>
  \/ LitAt(trimmed, 0, <<"h","t","t","p",":","/","/">>)
  \/ LitAt(trimmed, 0, <<"h","t","t","p","s",":","/","/">>)
  \/ startsWith(trimmed, <<"d","a","t","a",":">>)

\* !trimmed || /^https?:\/\//i.test(trimmed) || trimmed.startsWith("data:")
rejected(trimmed) ==
  \/ trimmed = <<>>
  \/ IsHttpUrl(trimmed)
  \/ startsWith(trimmed, <<"d","a","t","a",":">>)

resolveImageFile(dest, linkPath) ==
  IF rejected(trim(linkPath)) THEN NoFile
  ELSE getFirstLinkpathDest(dest, cleaned(linkPath))

\* the getFirstLinkpathDest calls resolveImageFile(sourceFile, linkPath) makes
resolveImageFileLookups(sourceFile, linkPath) ==
  IF rejected(trim(linkPath)) THEN <<>>
  ELSE <<Lookup(cleaned(linkPath), sourceFile)>>

\* a loop that gives up on all links when one of them is not a markdown file
ResolveMarkdownFailFast(d, paths) ==
  IF \E k \in 1..Len(paths) : getFirstLinkpathDest(d, paths[k]).extension # "md"
  THEN <<>>
  ELSE [k \in 1..Len(paths) |-> getFirstLinkpathDest(d, paths[k])]

\* the loop of findLinkedRecipeFiles over linkPaths
RECURSIVE ResolveMarkdown(_, _)
ResolveMarkdown(dest, paths) ==
  IF paths = <<>> THEN <<>>
  ELSE LET destination == getFirstLinkpathDest(dest, Head(paths))
       IN  (IF destination # NoFile /\ destination.extension = "md"
            THEN <<destination>> ELSE <<>>)
             \o ResolveMarkdown(dest, Tail(paths))

findLinkedRecipeFiles(dest, content) == ResolveMarkdown(dest, linkPaths(content))

\* the getFirstLinkpathDest calls findLinkedRecipeFiles(sourceFile, content)
\* makes: one for each linkPath of the Set, in insertion order
findLinkedRecipeFilesLookups(sourceFile, content) ==
  [k \in 1..Len(linkPaths(content)) |-> Lookup(linkPaths(content)[k], sourceFile)]

\* pieces of a built message: a literal of the source, or text of the vault
Lit(x) == [kind |-> "lit", lit |-> x, text |-> <<>>]

Txt(x) == [kind |-> "text", lit |-> "", text |-> x]

\* `---\nFile: ${file.path}\n${cleaned}`
recipeBlock(file, raw) ==
  <<Lit("---\nFile: "), Txt(file.path), Lit("\n"), Txt(stripImageEmbeds(raw))>>

\* recipeContents.join("\n\n")
RECURSIVE JoinBlocks(_)
JoinBlocks(blocks) ==
  IF blocks = <<>> THEN <<>>
  ELSE IF Len(blocks) = 1 THEN blocks[1]
  ELSE blocks[1] \o <<Lit("\n\n")>> \o JoinBlocks(Tail(blocks))

\* the two messages buildShoppingListFromMealPlan sends
shoppingMessages(prompt, templateSection, recipeContents) ==
  <<[role |-> "system", content |-> <<Txt(prompt)>>],
    [role |-> "user",
     content |-> <<Lit("Meal plan shopping list template:\n"),
                   Txt(templateSection), Lit("\n\n"),
                   Lit("Recipes (omit any images already removed):\n")>>
                   \o JoinBlocks(recipeContents)]>>

\* the two messages callLlmForImage sends; the data URL is kept as its mime
\* type and the bytes read from the image file
imageMessages(prompt, imageFile, binary) ==
  <<[role |-> "system", content |-> <<Txt(prompt)>>],
    [role |-> "user",
     content |-> <<Lit("Recipe image for ingredient extraction."),
                   [kind |-> "image_url", lit |-> getMimeType(imageFile.extension),
                    text |-> binary]>>]>>

\* ------------------------------------------------------------------------
\* State
\* ------------------------------------------------------------------------

VARIABLES
  activeFile,   \* app.workspace.getActiveFile(): a TFile or NoFile
  vault,        \* text of every markdown file of the vault, by path
  dest,         \* link table of the metadata cache: link path -> TFile/NoFile
  settings,     \* this.settings
  inv,          \* the command invocations: locals, position and the calls
                \* made to the collaborators (notices, llmCalls, requests,
                \* reads, lookups)
  modifyCalls,  \* the app.vault.modify calls made so far, in order
  tab           \* the settings tab: the onChange events it got, the
                \* saveSettings calls it made and the data last saved

vars == <<activeFile, vault, dest, settings, inv, modifyCalls, tab>>

\* command invocations that may be in flight
Invocations == {1, 2}

\* an invocation that has not been started
IdleInvocation ==
  [pc |-> "idle", workflow |-> "none", outcome |-> "none",
   notices |-> <<>>, llmCalls |-> <<>>, requests |-> <<>>, reads |-> <<>>,
   lookups |-> <<>>,
   content |-> <<>>, readAfter |-> 0, updatedContent |-> <<>>,
   matches |-> <<>>, imageFile |-> NoFile, binary |-> <<>>,
   sectionStart |-> 0, sectionLevel |-> 0, afterHeaderIndex |-> 0,
   sectionEnd |-> 0,
   recipeFiles |-> <<>>, recipeContents |-> <<>>, updatedSection |-> <<>>]

\* the function returns after showing a notice
Return(p, notice) ==
  inv' = [inv EXCEPT ![p].pc = "done", ![p].outcome = "returned",
                     ![p].notices = Append(@, notice)]

\* an exception leaves the function: the promise of the command rejects
Throw(p) ==
  inv' = [inv EXCEPT ![p].pc = "done", ![p].outcome = "threw"]

\* ------------------------------------------------------------------------
\* extractRecipeInformationFromActiveFile
\* ------------------------------------------------------------------------

\* the command is invoked: the active-file check
extractBegin(p) ==
  /\ inv[p].pc = "idle"
  /\ IF activeFile = NoFile \/ activeFile.extension # "md"
     THEN inv' = [inv EXCEPT ![p].pc = "done", ![p].outcome = "returned",
                    ![p].workflow = "extract",
                    ![p].notices = <<Notice("Open a markdown file to extract ingredients.")>>]
     ELSE inv' = [inv EXCEPT ![p].pc = "x_read", ![p].outcome = "running",
                    ![p].workflow = "extract"]
  /\ UNCHANGED <<activeFile, vault, dest, settings, modifyCalls, tab>>

\* a read step that returns without a notice when the note has no image
extractReadSilent(p) ==
  /\ inv[p].pc = "x_read"
  /\ \E readOk \in BOOLEAN :
       IF ~readOk THEN Throw(p)
       ELSE LET noteContent == vault[activeFile.path]
                matches == findImageLinks(noteContent)
            IN  IF Len(matches) = 0
                THEN inv' = [inv EXCEPT ![p].pc = "done",
                               ![p].outcome = "returned",
                               ![p].content = noteContent,
                               ![p].readAfter = Len(modifyCalls)]
                ELSE inv' = [inv EXCEPT ![p].pc = "x_resolve",
                               ![p].content = noteContent,
                               ![p].readAfter = Len(modifyCalls),
                               ![p].updatedContent = noteContent,
                               ![p].matches = SortByStartDescending(matches)]
  /\ UNCHANGED <<activeFile, vault, dest, settings, modifyCalls, tab>>

\* await vault.read(activeFile), findImageLinks, the descending sort
extractRead(p) ==
  /\ inv[p].pc = "x_read"
  /\ \E readOk \in BOOLEAN :
       IF ~readOk THEN Throw(p)
       ELSE LET noteContent == vault[activeFile.path]
                matches == findImageLinks(noteContent)
            IN  IF Len(matches) = 0
                THEN inv' = [inv EXCEPT ![p].pc = "done",
                               ![p].outcome = "returned",
                               ![p].content = noteContent,
                               ![p].readAfter = Len(modifyCalls),
                               ![p].notices = Append(@,
                                 Notice("No image attachments found in this file."))]
                ELSE inv' = [inv EXCEPT ![p].pc = "x_resolve",
                               ![p].content = noteContent,
                               ![p].readAfter = Len(modifyCalls),
                               ![p].updatedContent = noteContent,
                               ![p].matches = SortByStartDescending(matches)]
  /\ UNCHANGED <<activeFile, vault, dest, settings, modifyCalls, tab>>

\* head of the loop body: resolveImageFile, then the prompt check of
\* callLlmForImage up to its await of readBinary
extractResolve(p) ==
  /\ inv[p].pc = "x_resolve"
  /\ LET match == Head(inv[p].matches)
         imageFile == resolveImageFile(dest, match.linkPath)
         looked == [inv EXCEPT ![p].lookups =
                      @ \o resolveImageFileLookups(activeFile, match.linkPath)]
         failed(e) == [looked EXCEPT ![p].pc = "done", ![p].outcome = "returned",
                         ![p].notices = Append(@, ErrorNotice(match.linkPath, e))]
     IN  IF imageFile = NoFile
         THEN inv' = failed(Error("Attachment not found: ", match.linkPath, 0))
         ELSE IF trim(settings.bookExtractionPrompt) = <<>>
         THEN inv' = failed(Error("Ingredients prompt is empty", <<>>, 0))
         ELSE inv' = [looked EXCEPT ![p].pc = "x_binary", ![p].imageFile = imageFile]
  /\ UNCHANGED <<activeFile, vault, dest, settings, modifyCalls, tab>>

\* await vault.readBinary(imageFile) inside callLlmForImage
extractReadBinary(p) ==
  /\ inv[p].pc = "x_binary"
  /\ \E readOk \in BOOLEAN :
       IF ~readOk
       THEN Return(p, ErrorNotice(Head(inv[p].matches).linkPath,
                        Error("read failed", <<>>, 0)))
       ELSE inv' = [inv EXCEPT ![p].pc = "x_llm",
                      ![p].binary = inv[p].imageFile.path]
  /\ UNCHANGED <<activeFile, vault, dest, settings, modifyCalls, tab>>

\* an insertion that overwrites the embed's first character
insertOverEmbed(updatedContent, start, llmResult) ==
  Slice(updatedContent, 0, start) \o trim(llmResult) \o <<"\n", "\n">>
    \o SliceFrom(updatedContent, start + 1)

\* the text inserted for one image and where
insertBefore(updatedContent, start, llmResult) ==
  Slice(updatedContent, 0, start) \o trim(llmResult) \o <<"\n", "\n">>
    \o SliceFrom(updatedContent, start)

\* a blank check that lets every reply through
isBlankNever(llmResult) == FALSE

\* !llmResult.trim()
isBlank(llmResult) == trim(llmResult) = <<>>

\* await callLlm(...) inside callLlmForImage, the blank check, the insertion
extractCallLlm(p, http) ==
  /\ inv[p].pc = "x_llm"
  /\ LET match == Head(inv[p].matches)
         messages == imageMessages(trim(settings.bookExtractionPrompt),
                                   inv[p].imageFile, inv[p].binary)
         r == callLlm(settings, messages, settings.imageModel, http)
         called == [inv EXCEPT
                      ![p].llmCalls = Append(@, [messages |-> messages,
                                        threw |-> r.threw, value |-> r.value,
                                        error |-> r.error, model |-> settings.imageModel,
                                        http |-> http, requests |-> r.requests]),
                      ![p].requests = @ \o r.requests]
         failed(e) == [called EXCEPT ![p].pc = "done", ![p].outcome = "returned",
                         ![p].notices = Append(@, ErrorNotice(match.linkPath, e))]
     IN  IF r.threw THEN inv' = failed(r.error)
         ELSE IF isBlank(r.value)
         THEN inv' = failed(Error("LLM returned empty response for: ",
                                  inv[p].imageFile.path, 0))
         ELSE inv' = [called EXCEPT
                        ![p].updatedContent = insertBefore(@, match.start, r.value),
                        ![p].matches = Tail(@),
                        ![p].pc = IF Len(inv[p].matches) = 1 THEN "x_write"
                                  ELSE "x_resolve"]
  /\ UNCHANGED <<activeFile, vault, dest, settings, modifyCalls, tab>>

\* after the loop: vault.modify when the text changed, then the notice
extractWrite(p) ==
  /\ inv[p].pc = "x_write"
  /\ IF inv[p].updatedContent # inv[p].content
     THEN /\ modifyCalls' = Append(modifyCalls,
               [by |-> p, file |-> activeFile, data |-> inv[p].updatedContent])
          /\ \E writeOk \in BOOLEAN :
               IF writeOk
               THEN /\ vault' = [vault EXCEPT ![activeFile.path] = inv[p].updatedContent]
                    /\ Return(p, Notice("Recipe information extracted and inserted detected images."))
               ELSE /\ UNCHANGED vault
                    /\ Throw(p)
     ELSE /\ Return(p, Notice("Recipe information extracted and inserted detected images."))
          /\ UNCHANGED <<vault, modifyCalls>>
  /\ UNCHANGED <<activeFile, dest, settings, tab>>

\* ------------------------------------------------------------------------
\* buildShoppingListFromMealPlan
\* ------------------------------------------------------------------------

\* the command is invoked: the active-file check
shopBegin(p) ==
  /\ inv[p].pc = "idle"
  /\ IF activeFile = NoFile \/ activeFile.extension # "md"
     THEN inv' = [inv EXCEPT ![p].pc = "done", ![p].outcome = "returned",
                    ![p].workflow = "shopping",
                    ![p].notices = <<Notice("Open a meal plan markdown file to build a shopping list.")>>]
     ELSE inv' = [inv EXCEPT ![p].pc = "s_read", ![p].outcome = "running",
                    ![p].workflow = "shopping"]
  /\ UNCHANGED <<activeFile, vault, dest, settings, modifyCalls, tab>>

\* await vault.read(activeFile), the header match and the section span
shopRead(p) ==
  /\ inv[p].pc = "s_read"
  /\ \E readOk \in BOOLEAN :
       IF ~readOk THEN Throw(p)
       ELSE LET planContent == vault[activeFile.path]
                m == headerMatch(planContent)
            IN  IF m.index = -1
                THEN inv' = [inv EXCEPT ![p].pc = "done",
                               ![p].outcome = "returned",
                               ![p].content = planContent,
                               ![p].readAfter = Len(modifyCalls),
                               ![p].notices = Append(@,
                                 Notice("No '# Need to buy' section found in the active file."))]
                ELSE inv' = [inv EXCEPT ![p].pc = "s_links",
                               ![p].content = planContent,
                               ![p].readAfter = Len(modifyCalls),
                               ![p].sectionStart = m.index,
                               ![p].sectionLevel = m.level,
                               ![p].afterHeaderIndex = m.end,
                               ![p].sectionEnd =
                                 sectionEndOf(planContent, m.end, m.level)]
  /\ UNCHANGED <<activeFile, vault, dest, settings, modifyCalls, tab>>

\* a link step that looks at the prompt before it looks for the links
shopFindLinksPromptFirst(p) ==
  /\ inv[p].pc = "s_links"
  /\ LET recipeFiles == findLinkedRecipeFiles(dest, inv[p].content)
         looked == [inv EXCEPT ![p].lookups =
                      @ \o findLinkedRecipeFilesLookups(activeFile, inv[p].content)]
     IN  IF trim(settings.shoppingListPrompt) = <<>>
         THEN Return(p, Notice("Shopping list prompt is empty."))
         ELSE IF Len(recipeFiles) = 0
         THEN inv' = [looked EXCEPT ![p].pc = "done", ![p].outcome = "returned",
                        ![p].notices = Append(@,
                          Notice("No linked recipe files found in the meal plan."))]
         ELSE inv' = [looked EXCEPT ![p].pc = "s_recipes",
                                    ![p].recipeFiles = recipeFiles]
  /\ UNCHANGED <<activeFile, vault, dest, settings, modifyCalls, tab>>

\* findLinkedRecipeFiles and the empty check
shopFindLinks(p) ==
  /\ inv[p].pc = "s_links"
  /\ LET recipeFiles == findLinkedRecipeFiles(dest, inv[p].content)
         looked == [inv EXCEPT ![p].lookups =
                      @ \o findLinkedRecipeFilesLookups(activeFile, inv[p].content)]
     IN  IF Len(recipeFiles) = 0
         THEN inv' = [looked EXCEPT ![p].pc = "done", ![p].outcome = "returned",
                        ![p].notices = Append(@,
                          Notice("No linked recipe files found in the meal plan."))]
         ELSE inv' = [looked EXCEPT ![p].pc = "s_recipes",
                                    ![p].recipeFiles = recipeFiles]
  /\ UNCHANGED <<activeFile, vault, dest, settings, modifyCalls, tab>>

\* one pass of the loop over recipeFiles: await vault.read(file), strip, push
shopReadRecipe(p) ==
  /\ inv[p].pc = "s_recipes"
  /\ LET file == inv[p].recipeFiles[Len(inv[p].recipeContents) + 1]
     IN  \E readOk \in BOOLEAN :
           IF ~readOk THEN Throw(p)
           ELSE inv' = [inv EXCEPT
                  ![p].reads = Append(@, file.path),
                  ![p].recipeContents = Append(@, recipeBlock(file, vault[file.path])),
                  ![p].pc = IF Len(inv[p].recipeContents) + 1 = Len(inv[p].recipeFiles)
                            THEN "s_llm" ELSE "s_recipes"]
  /\ UNCHANGED <<activeFile, vault, dest, settings, modifyCalls, tab>>

\* the prompt check, await callLlm(...), the check of the trimmed response
shopCallLlm(p, http) ==
  /\ inv[p].pc = "s_llm"
  /\ LET prompt == trim(settings.shoppingListPrompt)
         templateSection ==
           trim(Slice(inv[p].content, inv[p].sectionStart, inv[p].sectionEnd))
         messages == shoppingMessages(prompt, templateSection, inv[p].recipeContents)
         r == callLlm(settings, messages, settings.textModel, http)
         called == [inv EXCEPT
                      ![p].llmCalls = Append(@, [messages |-> messages,
                                        threw |-> r.threw, value |-> r.value,
                                        error |-> r.error, model |-> settings.textModel,
                                        http |-> http, requests |-> r.requests]),
                      ![p].requests = @ \o r.requests]
         updatedSection == trim(r.value)
     IN  IF prompt = <<>>
         THEN Return(p, Notice("Shopping list prompt is empty."))
         ELSE IF r.threw
         THEN inv' = [called EXCEPT ![p].pc = "done", ![p].outcome = "threw"]
         ELSE IF ~ResponseHeaderTest(updatedSection)
         THEN inv' = [called EXCEPT ![p].pc = "done", ![p].outcome = "returned",
                        ![p].notices = Append(@,
                          Notice("LLM response did not include a '# Need to buy' section."))]
         ELSE inv' = [called EXCEPT ![p].pc = "s_write",
                                    ![p].updatedSection = updatedSection]
  /\ UNCHANGED <<activeFile, vault, dest, settings, modifyCalls, tab>>

\* replaceSection as it was before the text after the section was kept
replaceSectionDropsTrailing(planContent, sectionStart, sectionEnd, updatedSection) ==
  Slice(planContent, 0, sectionStart) \o updatedSection \o <<"\n">>

\* the text written back: the section replaced by the trimmed response
replaceSection(planContent, sectionStart, sectionEnd, updatedSection) ==
  LET trailingContent == SliceFrom(planContent, sectionEnd)
      separator == IF trailingContent = <<>> THEN <<"\n">>
                   ELSE IF startsWith(trailingContent, <<"\n">>) THEN <<>>
                   ELSE <<"\n">>
  IN  Slice(planContent, 0, sectionStart) \o updatedSection \o separator
        \o trailingContent

\* await vault.modify(activeFile, updatedContent), then the notice
shopWrite(p) ==
  /\ inv[p].pc = "s_write"
  /\ LET updatedContent == replaceSection(inv[p].content, inv[p].sectionStart,
                             inv[p].sectionEnd, inv[p].updatedSection)
     IN  /\ modifyCalls' = Append(modifyCalls,
              [by |-> p, file |-> activeFile, data |-> updatedContent])
         /\ \E writeOk \in BOOLEAN :
              IF writeOk
              THEN /\ vault' = [vault EXCEPT ![activeFile.path] = updatedContent]
                   /\ Return(p, Notice("Shopping list updated from linked recipes."))
              ELSE /\ UNCHANGED vault
                   /\ Throw(p)
  /\ UNCHANGED <<activeFile, dest, settings, tab>>

\* ------------------------------------------------------------------------
\* loadSettings and RecipeParsingSettingTab
\* ------------------------------------------------------------------------

\* loadData() of a fresh install: null
NullData == [f \in {} |-> <<>>]

\* loadSettings(): Object.assign({}, DEFAULT_SETTINGS, saved ?? {}) and the
\* legacy model; keys of saved that are no settings of this version are
\* carried along by the source and left out here
loadSettings(defaults, saved) ==
  LET merged == [f \in DOMAIN defaults |->
                   IF f \in DOMAIN saved THEN saved[f] ELSE defaults[f]]
      legacyModel == IF "model" \in DOMAIN saved THEN trim(saved["model"]) ELSE <<>>
      falsy(f) == f \notin DOMAIN saved \/ saved[f] = <<>>
  IN  IF legacyModel # <<>> /\ falsy("imageModel") /\ falsy("textModel")
      THEN [merged EXCEPT !.imageModel = legacyModel, !.textModel = legacyModel]
      ELSE merged

\* the four text inputs and the three text areas of display()
TextSettings == {"llmEndpoint", "apiKey", "imageModel", "textModel"}

TextAreaSettings == {"bookExtractionPrompt", "webRecipePrompt", "shoppingListPrompt"}

\* an onChange that stores the trimmed model name without a fallback
storedValueWithoutFallback(field, value) ==
  IF field \in TextSettings THEN trim(value) ELSE value

\* what options.onChange(value) of the field stores
storedValue(field, value) ==
  CASE field \in {"llmEndpoint", "apiKey"} -> trim(value)
    [] field \in {"imageModel", "textModel"} ->
         IF trim(value) # <<>> THEN trim(value)
         ELSE <<"g","p","t","-","5",".","2">>
    [] OTHER -> value

\* most onChange events of the settings tab in one behaviour
MaxEdits == 3

\* the onChange callback of a control: options.onChange(value), then
\* await this.plugin.saveSettings(), which hands this.settings to saveData
onChange(field, value) ==
  /\ tab.edits < MaxEdits
  /\ settings' = [settings EXCEPT ![field] = storedValue(field, value)]
  /\ tab' = [edits |-> tab.edits + 1, saves |-> tab.saves + 1,
             last |-> [field |-> field, value |-> value],
             data |-> settings']
  /\ UNCHANGED <<activeFile, vault, dest, inv, modifyCalls>>

\* ------------------------------------------------------------------------
\* Inputs: the vault, the settings and the replies of the LLM endpoint
\* ------------------------------------------------------------------------

\* lines.join("\n")
RECURSIVE JoinLines(_)
JoinLines(lines) ==
  IF Len(lines) = 0 THEN <<>>
  ELSE IF Len(lines) = 1 THEN lines[1]
  ELSE lines[1] \o <<"\n">> \o JoinLines(Tail(lines))

\* the texts of 1..n lines taken from pool
Documents(pool, n) ==
  {JoinLines(ls) : ls \in UNION {[1..k -> pool] : k \in 1..n}}

\* the texts made of 1..n fragments taken from pool
RECURSIVE Concat(_)
Concat(parts) == IF Len(parts) = 0 THEN <<>> ELSE Head(parts) \o Concat(Tail(parts))

Fragments(pool, n) ==
  {Concat(ps) : ps \in UNION {[1..k -> pool] : k \in 1..n}}

\* most lines of a meal plan, of a note with images, most fragments of a recipe
MaxPlanLines == 3

MaxNoteLines == 3

MaxRecipeFragments == 3

PlanPath == <<"p","l","a","n",".","m","d">>

PlanFile == TFile(PlanPath, "md")

TextFile == TFile(<<"p","l","a","n",".","t","x","t">>, "txt")

RecipeA == TFile(<<"a",".","m","d">>, "md")

RecipeB == TFile(<<"b",".","m","d">>, "md")

\* lines of meal plans: headings of several levels, with and without the
\* phrase, a bare "#" and a bare phrase, links to the notes a and b
PlanPool ==
  { <<"#"," ","N","e","e","d"," ","t","o"," ","b","u","y">>,
    <<"#","#"," ","n","e","e","d"," ","T","O"," ","b","u","y"," ","x"," ","[","[","a","]","]">>,
    <<"#">>,
    <<"N","e","e","d"," ","t","o"," ","b","u","y">>,
    <<"#","#","#"," ","s">>,
    <<"#","#"," ","T"," ","[","[","a","]","]">>,
    <<"#"," ","N">>,
    <<"#","N","e","e","d"," ","t","o"," ","b","u","y","s">>,
    <<"#","#","#","#","#","#","#"," ","N","e","e","d"," ","t","o"," ","b","u","y">>,
    <<>> }

\* lines of notes with images and links
NotePool ==
  { <<"!","[","[","p","]","]">>,
    <<"!","[","t","]","(","q"," ","\"","c","\"",")">>,
    <<"t">>,
    <<"#"," ","N","e","e","d"," ","t","o"," ","b","u","y">>,
    <<"[","[","a","]","]"," ","[","[","b","|","x","]","]"," ","!","[","[","p","#","h","]","]">> }

\* a meal plan and a note with two images, used where the vault's link table
\* and the settings vary
BasePlan == JoinLines(<< <<"-"," ","[","[","a","]","]"," ","a","n","d"," ","[","[","b","#","h","]","]">>, <<"#","#"," ","N","e","e","d"," ","t","o"," ","b","u","y">>,
                         <<"-"," ","["," ","]">>, <<"#","#"," ","T">>, <<>> >>)

BaseNote == JoinLines(<< <<"S">>, <<"!","[","[","p","|","x","]","]">>, <<"!","[","t","]","(","q",")">> >>)

\* fragments of recipes: embeds of the three kinds and pieces of them
RecipePool ==
  { <<"!","[","[","i","]","]">>, <<"!","[">>, <<"[","x","]","]">>, <<"<","i","m","g"," ","s",">">>, <<"<","I","M","G",">">>,
    <<"!","[","a","]","(","u",")">>, <<"k">>, <<"\n">> }

BaseRecipes == (RecipeA.path :> <<"K","\n","!","[","[","i","]","]">>) @@ (RecipeB.path :> <<"L">>)

\* fragments of the lines of a meal plan that link recipes: links to the
\* note a by two paths, with an alias and with a heading, an embed and a
\* link of the note b, and pieces of links
LinkPool ==
  { <<"[","[","a","]","]">>,
    <<"[","[","a","|","x","]","]">>,
    <<"[","[","a","#","h","]","]">>,
    <<"[","[","a",".","m","d","]","]">>,
    <<"!","[","[","b","]","]">>,
    <<"[","[","b","]","]">>,
    <<"[","[">>,
    <<"!">>,
    <<"\n">> }

\* most fragments before the section of a meal plan with links
MaxLinkFragments == 3

\* the section that follows the links of such a meal plan
LinkPlanSection == <<"\n","#"," ","N","e","e","d"," ","t","o"," ","b","u","y","\n","-"," ","["," ","]">>

\* a link table in which the paths a and a.md lead to the same note
LinkDest ==
  (<<"a">> :> RecipeA) @@ (RecipeA.path :> RecipeA) @@ (<<"b">> :> RecipeB)

\* lines of notes whose embeds have targets of every kind: blank, URLs in
\* either case, data URLs, near misses of both, targets with a heading and
\* an alias in either order, a title, and plain links
EmbedPool ==
  { <<"!","[","["," ","]","]">>,
    <<"!","[","t","]","(","h","t","t","p",":","/","/","e",")">>,
    <<"!","[","t","]","(","H","T","T","P","S",":","/","/","e",")">>,
    <<"!","[","[","d","a","t","a",":","x","]","]">>,
    <<"!","[","t","]","(","q","#","h","|","x",")">>,
    <<"!","[","t","]","(","q","|","x","#","y",")">>,
    <<"!","[","["," ","p"," ","|","x","]","]">>,
    <<"!","[","t","]","(","h","t","t","p",":","/","q",")">>,
    <<"!","[","t","]","(","D","a","t","a",":","q",")">>,
    <<"[","t","]","(","q",")"," ","[","[","a","]","]">>,
    <<"x"," ","!","[","[","p","#","h","|","x","]","]">>,
    <<"!","[","t","]","(","q"," ","\"","c","\"",")">>,
    <<"!","[","t","]","(","#","h",")">> }

\* most lines of a note with such embeds
MaxEmbedLines == 2

\* texts typed into a control of the settings tab
TabInputs ==
  { <<>>, <<" ","\t">>, <<" ","m"," ">>, <<"k","\n">>, <<"\n"," ","o"," ","p">> }

\* data.json as loadData() returns it: none, the data of the first version
\* of the plugin (one model, typed with a blank at the end), data saved by
\* this settings tab
SavedData ==
  { NullData,
    ("llmEndpoint" :> <<"u">>) @@ ("apiKey" :> <<"s">>) @@ ("model" :> <<"m"," ">>),
    ("llmEndpoint" :> <<>>) @@ ("imageModel" :> <<"i">>) @@ ("model" :> <<"m">>)
      @@ ("shoppingListPrompt" :> <<" ","Y"," ">>) }

\* the link tables: a and b are notes that resolve to a markdown file, to a
\* file of another type or to nothing; p and q are images that resolve or not
Dests ==
  { (<<"a">> :> fa) @@ (<<"b">> :> fb) @@ (<<"p">> :> fp) @@ (<<"q">> :> fq) :
      fa \in {RecipeA, TFile(<<"a",".","p","n","g">>, "png"), NoFile},
      fb \in {RecipeB, NoFile},
      fp \in {TFile(<<"p",".","p","n","g">>, "png"), NoFile},
      fq \in {TFile(<<"q",".","j","p","g">>, "jpg")} }
  \cup
  { (<<"a">> :> RecipeA) @@ (<<"b">> :> TFile(<<"b",".","t","x","t">>, "txt"))
      @@ (<<"p">> :> TFile(<<"p",".","p","n","g">>, "png")) @@ (<<"q">> :> NoFile) }

BaseDest ==
  (<<"a">> :> RecipeA) @@ (<<"b">> :> RecipeB)
    @@ (<<"p">> :> TFile(<<"p",".","p","n","g">>, "png")) @@ (<<"q">> :> TFile(<<"q",".","j","p","g">>, "jpg"))

\* DEFAULT_SETTINGS, with short texts in place of the endpoint and prompts;
\* webRecipePrompt is the field the settings tab and the webpage command of
\* this version of main.ts use
DEFAULT_SETTINGS ==
  [llmEndpoint |-> <<"h","t","t","p",":","/","/","e">>, apiKey |-> <<>>,
   imageModel |-> <<"g","p","t","-","5",".","2">>, textModel |-> <<"g","p","t","-","5",".","2">>,
   bookExtractionPrompt |-> <<"E","x","t","r","a","c","t">>,
   webRecipePrompt |-> <<"W","e","b">>,
   shoppingListPrompt |-> <<"Y","o","u"," ","c","r","e","a","t","e">>]

SettingsSet ==
  { DEFAULT_SETTINGS,
    [DEFAULT_SETTINGS EXCEPT !.shoppingListPrompt = <<" "," ">>],
    [DEFAULT_SETTINGS EXCEPT !.bookExtractionPrompt = <<" ","\n">>],
    [DEFAULT_SETTINGS EXCEPT !.llmEndpoint = <<" ">>],
    [DEFAULT_SETTINGS EXCEPT !.imageModel = <<" ">>, !.textModel = <<>>],
    [DEFAULT_SETTINGS EXCEPT !.apiKey = <<" ","k"," ">>],
    [DEFAULT_SETTINGS EXCEPT !.apiKey = <<" ","\t">>],
    [DEFAULT_SETTINGS EXCEPT !.llmEndpoint = <<"\n">>, !.imageModel = <<" ">>,
                             !.textModel = <<>>] }

\* texts the endpoint answers with
ShopReplies ==
  { <<"#"," ","N","e","e","d"," ","t","o"," ","b","u","y","\n","-"," ","["," ","]"," ","e">>,
    <<" ","\n","#","n","e","e","d"," ","t","o"," ","b","u","y","\n","\n">>,
    <<"#","\n","N","e","e","d"," ","t","o"," ","b","u","y">>,
    <<"#","#"," ","N","e","e","d"," ","t","o"," ","b","u","y">>,
    <<"N","o">> }

ImageReplies == { <<"R">>, <<"\n"," ","V"," ","\n">>, <<" ","\n">> }

\* what requestUrl does with a request of the given workflow
HttpOutcomes(workflow) ==
  { HttpThrows, HttpResponse(500, FALSE, <<>>), HttpResponse(200, FALSE, <<>>),
    HttpResponse(201, TRUE, <<"R">>) }
  \cup { HttpResponse(200, TRUE, r) :
           r \in IF workflow = "shopping" THEN ShopReplies ELSE ImageReplies }

\* ------------------------------------------------------------------------
\* Specifications
\* ------------------------------------------------------------------------

\* no command has been invoked, nothing has been written or edited
InitIdle ==
  /\ inv = [p \in Invocations |-> IdleInvocation]
  /\ modifyCalls = <<>>
  /\ tab = [edits |-> 0, saves |-> 0, last |-> [field |-> "", value |-> <<>>],
            data |-> NullData]

\* a note with an image embed outside its shopping list
RaceNote ==
  JoinLines(<< <<"!","[","[","p","]","]"," ","[","[","a","]","]">>,
               <<"#"," ","N","e","e","d"," ","t","o"," ","b","u","y">>,
               <<"#"," ","T">> >>)

\* two invocations of the commands on the same note
InitRace ==
  /\ InitIdle
  /\ activeFile = PlanFile
  /\ vault \in {(PlanPath :> note) @@ BaseRecipes : note \in {RaceNote, BaseNote, BasePlan}}
  /\ dest = BaseDest
  /\ settings = DEFAULT_SETTINGS

\* the workflows over notes with images and links, every link table and
\* every setting: either command is invoked once
Init ==
  /\ InitIdle
  /\ \E note \in Documents(NotePool, MaxNoteLines) \cup {BasePlan, BaseNote} :
       /\ vault = (PlanPath :> note) @@ BaseRecipes
       /\ \/ /\ activeFile \in {NoFile, TextFile}
             /\ note = BaseNote
             /\ dest = BaseDest
             /\ settings = DEFAULT_SETTINGS
          \/ /\ activeFile = PlanFile
             /\ dest = BaseDest
             /\ settings = DEFAULT_SETTINGS
          \/ /\ activeFile = PlanFile
             /\ note \in {BasePlan, BaseNote}
             /\ dest \in Dests
             /\ settings \in SettingsSet

\* the shopping-list command over meal plans of every shape
InitSection ==
  /\ InitIdle
  /\ activeFile = PlanFile
  /\ \E plan \in Documents(PlanPool, MaxPlanLines) :
       vault = (PlanPath :> plan) @@ BaseRecipes
  /\ dest = BaseDest
  /\ settings = DEFAULT_SETTINGS

\* the shopping-list command over recipes of every shape
InitStrip ==
  /\ InitIdle
  /\ activeFile = PlanFile
  /\ \E recipe \in Fragments(RecipePool, MaxRecipeFragments) :
       vault = (PlanPath :> BasePlan) @@ (RecipeA.path :> recipe) @@ BaseRecipes
  /\ dest = BaseDest
  /\ settings = DEFAULT_SETTINGS

\* the shopping-list command over meal plans whose links take every shape
InitLinks ==
  /\ InitIdle
  /\ activeFile = PlanFile
  /\ \E links \in Fragments(LinkPool, MaxLinkFragments) :
       vault = (PlanPath :> links \o LinkPlanSection) @@ BaseRecipes
  /\ dest = LinkDest
  /\ settings = DEFAULT_SETTINGS

\* the image command over notes whose embeds have targets of every kind
InitResolve ==
  /\ InitIdle
  /\ activeFile = PlanFile
  /\ \E note \in Documents(EmbedPool, MaxEmbedLines) :
       vault = (PlanPath :> note) @@ BaseRecipes
  /\ dest = BaseDest
  /\ settings = DEFAULT_SETTINGS

\* pieces of embeds: the openings and closings of both patterns
ScanPool ==
  { <<"!","[","[">>, <<"!","[">>, <<"a">>, <<"]","]">>,
    <<"]","(","a",")">>, <<"]">>, <<"[">>, <<"|">> }

\* most pieces of a scanned note
MaxScanFragments == 4

\* the image command up to its scan, over notes made of pieces of embeds
InitScan ==
  /\ InitIdle
  /\ activeFile = PlanFile
  /\ \E note \in Fragments(ScanPool, MaxScanFragments) :
       vault = (PlanPath :> note) @@ BaseRecipes
  /\ dest = BaseDest
  /\ settings = DEFAULT_SETTINGS

\* the settings tab is opened after onload() loaded the settings
InitSettings ==
  /\ InitIdle
  /\ activeFile = NoFile
  /\ vault = (PlanPath :> BasePlan) @@ BaseRecipes
  /\ dest = BaseDest
  /\ \E saved \in SavedData : settings = loadSettings(DEFAULT_SETTINGS, saved)

NextSettings ==
  \E field \in TextSettings \cup TextAreaSettings, value \in TabInputs :
    onChange(field, value)

ExtractStep(p) ==
  \/ extractBegin(p)
  \/ extractRead(p)
  \/ extractResolve(p)
  \/ extractReadBinary(p)
  \/ \E http \in HttpOutcomes("extract") : extractCallLlm(p, http)
  \/ extractWrite(p)

ShopStep(p) ==
  \/ shopBegin(p)
  \/ shopRead(p)
  \/ shopFindLinks(p)
  \/ shopReadRecipe(p)
  \/ \E http \in HttpOutcomes("shopping") : shopCallLlm(p, http)
  \/ shopWrite(p)

Next == ExtractStep(1) \/ ShopStep(1)

NextShop == ShopStep(1)

NextExtract == ExtractStep(1)

\* the commands are callbacks of the event loop: a second invocation may
\* start while the first is suspended at an await
NextRace == \E p \in Invocations : ExtractStep(p) \/ ShopStep(p)

\* the image command up to the end of findImageLinks and the sort
NextScan == extractBegin(1) \/ extractRead(1)

Spec == Init /\ [][Next]_vars

SpecScan == InitScan /\ [][NextScan]_vars

SpecRace == InitRace /\ [][NextRace]_vars

SpecSection == InitSection /\ [][NextShop]_vars

SpecStrip == InitStrip /\ [][NextShop]_vars

SpecLinks == InitLinks /\ [][NextShop]_vars

SpecResolve == InitResolve /\ [][NextExtract]_vars

SpecSettings == InitSettings /\ [][NextSettings]_vars

\* ------------------------------------------------------------------------
\* Properties
\* ------------------------------------------------------------------------

\* the vault.modify calls of invocation p
WritesBy(p) == SelectSeq(modifyCalls, LAMBDA c : c.by = p)

Finished(p, workflow) == inv[p].workflow = workflow /\ inv[p].pc = "done"

HasNotice(p, text) == \E k \in 1..Len(inv[p].notices) : inv[p].notices[k].text = text

\* the shopping-list invocation p got a reply that passed the check
ShopReplyAccepted(p) ==
  /\ Finished(p, "shopping")
  /\ Len(inv[p].llmCalls) = 1
  /\ ~inv[p].llmCalls[1].threw
  /\ ResponseHeaderTest(trim(inv[p].llmCalls[1].value))

\* C1: when a section [start, end) was located and the reply passed the
\* check, exactly one text is written and it is content[0..start), then the
\* trimmed reply, then the separator (a newline when content[end..] is empty
\* or does not begin with a newline, nothing otherwise), then content[end..],
\* character by character.
C1_ReplacementKeepsOutside ==
  \A p \in Invocations :
    ShopReplyAccepted(p) =>
      /\ Len(WritesBy(p)) = 1
      /\ LET c     == inv[p].content
             start == inv[p].sectionStart
             end   == inv[p].sectionEnd
             u     == trim(inv[p].llmCalls[1].value)
             w     == WritesBy(p)[1].data
             rest  == Len(c) - end
             sep   == IF rest = 0 \/ c[end + 1] # "\n" THEN 1 ELSE 0
         IN  /\ Len(w) = start + Len(u) + sep + rest
             /\ \A i \in 1..start : w[i] = c[i]
             /\ \A i \in 1..Len(u) : w[start + i] = u[i]
             /\ sep = 1 => w[start + Len(u) + 1] = "\n"
             /\ \A i \in 1..rest : w[start + Len(u) + sep + i] = c[end + i]

\* C1 witness: a replacement was written for a section with text before it
\* and text after it.
C1_Witness ==
  \E p \in Invocations :
    /\ ShopReplyAccepted(p)
    /\ Len(WritesBy(p)) = 1
    /\ inv[p].sectionStart > 0
    /\ inv[p].sectionEnd < Len(inv[p].content)

ExtractSucceeded(p) ==
  /\ Finished(p, "extract")
  /\ HasNotice(p, "Recipe information extracted and inserted detected images.")

\* the lowest start offset among the image matches of a text
FirstImageStart(content) ==
  LET ms == findImageLinks(content)
  IN  Min({ms[k].start : k \in 1..Len(ms)})

\* C2: after a successful image extraction the text written is the note with
\* the trimmed reply and a blank line inserted once, right before the image
\* match of lowest start offset, and nothing else changed.
C2_SingleInsertionBeforeFirstImage ==
  \A p \in Invocations :
    ExtractSucceeded(p) =>
      /\ Len(WritesBy(p)) = 1
      /\ LET c     == inv[p].content
             first == FirstImageStart(c)
             u     == trim(inv[p].llmCalls[1].value)
         IN  WritesBy(p)[1].data =
               Slice(c, 0, first) \o u \o <<"\n", "\n">> \o SliceFrom(c, first)

\* the image parts of the user message of an LLM call
ImageParts(call) ==
  SelectSeq(call.messages[2].content, LAMBDA part : part.kind = "image_url")

\* paths of the files the image matches resolve to, in ascending start order
RECURSIVE ResolvedImagesAscending(_, _)
ResolvedImagesAscending(d, sortedDescending) ==
  IF sortedDescending = <<>> THEN <<>>
  ELSE ResolvedImagesAscending(d, Tail(sortedDescending))
         \o <<resolveImageFile(d, Head(sortedDescending).linkPath).path>>

\* C3: a successful image extraction made exactly one LLM call, whose
\* request carries every resolved image in ascending start-offset order.
C3_SingleLlmCallWithEveryImage ==
  \A p \in Invocations :
    ExtractSucceeded(p) =>
      /\ Len(inv[p].llmCalls) = 1
      /\ LET parts == ImageParts(inv[p].llmCalls[1])
         IN  [k \in 1..Len(parts) |-> parts[k].text] =
               ResolvedImagesAscending(dest,
                 SortByStartDescending(findImageLinks(inv[p].content)))

\* an image match of the note read by p does not resolve to a file
SomeImageUnresolved(p) ==
  LET ms == findImageLinks(inv[p].content)
  IN  \E k \in 1..Len(ms) : resolveImageFile(dest, ms[k].linkPath) = NoFile

\* an LLM call of p failed or returned blank text
SomeLlmCallFailed(p) ==
  \E k \in 1..Len(inv[p].llmCalls) :
    inv[p].llmCalls[k].threw \/ trim(inv[p].llmCalls[k].value) = <<>>

\* C4: an image extraction in which an image match does not resolve, or an
\* LLM call failed or returned blank text, never calls vault.modify.
C4_FailFastNoPartialMutation ==
  \A p \in Invocations :
    (inv[p].workflow = "extract" /\ (SomeImageUnresolved(p) \/ SomeLlmCallFailed(p)))
      => WritesBy(p) = <<>>

\* C4 witness: text for one image had been obtained when a later LLM call
\* returned blank text, and the invocation ended without a write.
C4_Witness ==
  \E p \in Invocations :
    /\ Finished(p, "extract")
    /\ Len(inv[p].llmCalls) >= 2
    /\ ~inv[p].llmCalls[1].threw
    /\ inv[p].updatedContent # inv[p].content
    /\ SomeLlmCallFailed(p)
    /\ ~inv[p].llmCalls[Len(inv[p].llmCalls)].threw
    /\ WritesBy(p) = <<>>

\* C5: every finished invocation of either workflow returned normally and
\* showed exactly one notice; no exception of a collaborator left it.
C5_AlwaysReturnsWithOneNotice ==
  \A p \in Invocations :
    inv[p].pc = "done" =>
      /\ inv[p].outcome = "returned"
      /\ Len(inv[p].notices) = 1

\* the first line of a text begins with '#' and contains the phrase, in any case
StartsWithNeedToBuyHeading(u) ==
  LET line == Slice(u, 0, RunEnd(u, 0, LineTerminator))
  IN  /\ LitAt(line, 0, <<"#">>)
      /\ \E i \in 0..Len(line) : LitAtIgnoreCase(line, i, NeedToBuy)

\* C6: when the trimmed reply does not start with a heading line containing
\* 'Need to buy', the shopping-list invocation writes nothing and ends with
\* the notice "LLM response did not include a '# Need to buy' section."
C6_ReplyWithoutHeadingIsRejected ==
  \A p \in Invocations :
    ( /\ inv[p].workflow = "shopping"
      /\ Len(inv[p].llmCalls) = 1
      /\ ~inv[p].llmCalls[1].threw
      /\ ~StartsWithNeedToBuyHeading(trim(inv[p].llmCalls[1].value)) )
    => /\ WritesBy(p) = <<>>
       /\ inv[p].pc = "done" =>
            HasNotice(p, "LLM response did not include a '# Need to buy' section.")

\* C7: the sanitized text of every recipe block of the user message is a
\* fixed point of stripImageEmbeds (stripping it again changes nothing).
C7_StripIsIdempotent ==
  \A p \in Invocations :
    \A k \in 1..Len(inv[p].recipeContents) :
      LET sanitized == inv[p].recipeContents[k][4].text
      IN  stripImageEmbeds(sanitized) = sanitized

\* the shopping-list invocation p located a section
Located(p) == inv[p].workflow = "shopping" /\ inv[p].sectionLevel > 0

\* number of '#' at offset i
HashesAt(c, i) == SpanEnd(c, i, {"#"}) - i

\* a line that is a heading starts at offset i: 1-6 '#', then whitespace
IsHeadingLine(c, i) ==
  /\ i = 0 \/ c[i] = "\n"
  /\ HashesAt(c, i) \in 1..6
  /\ i + HashesAt(c, i) < Len(c)
  /\ c[i + HashesAt(c, i) + 1] \in WhiteSpace

\* C8: the located section ends at the start of the first line after its
\* heading line that is a heading of level at most the section's level, or at
\* the end of the document when there is none; a deeper heading never ends it.
C8_SectionEndsAtNextHeadingOfLevel ==
  \A p \in Invocations :
    Located(p) =>
      LET c == inv[p].content
          T == {i \in (inv[p].afterHeaderIndex + 1)..(Len(c) - 1) :
                  IsHeadingLine(c, i) /\ HashesAt(c, i) <= inv[p].sectionLevel}
      IN  /\ inv[p].sectionEnd = IF T = {} THEN Len(c) ELSE Min(T)
          /\ inv[p].sectionEnd < Len(c) =>
               HashesAt(c, inv[p].sectionEnd) <= inv[p].sectionLevel

\* C8 witness: a section with a deeper heading inside it that ends at a later
\* heading, before the end of the document.
C8_Witness ==
  \E p \in Invocations :
    /\ Located(p)
    /\ inv[p].sectionEnd < Len(inv[p].content)
    /\ \E i \in (inv[p].afterHeaderIndex + 1)..(inv[p].sectionEnd - 1) :
         /\ IsHeadingLine(inv[p].content, i)
         /\ HashesAt(inv[p].content, i) > inv[p].sectionLevel

\* a 'Need to buy' heading line starts at offset i: 1-6 '#', whitespace that
\* stays on the line, the phrase in any case, a word boundary
IsNeedToBuyLine(c, i) ==
  LET w == SpanEnd(c, i + HashesAt(c, i), WhiteSpace \ LineTerminator)
  IN  /\ i = 0 \/ c[i] = "\n"
      /\ HashesAt(c, i) \in 1..6
      /\ LitAtIgnoreCase(c, w, NeedToBuy)
      /\ WordBoundary(c, w + Len(NeedToBuy))

\* the shopping-list invocation p has read the plan and looked for the section
Looked(p) ==
  \/ Located(p)
  \/ HasNotice(p, "No '# Need to buy' section found in the active file.")

\* C9: a section is found exactly when some line is a 'Need to buy' heading
\* line; it then starts at the first such line with that line's number of
\* '#' as its level; otherwise the 'No section found' notice is shown and
\* there is no LLM call and no write.
C9_SectionFoundIffHeadingLine ==
  \A p \in Invocations :
    Looked(p) =>
      LET c == inv[p].content
          S == {i \in 0..(Len(c) - 1) : IsNeedToBuyLine(c, i)}
      IN  /\ Located(p) <=> S # {}
          /\ Located(p) =>
               /\ inv[p].sectionStart = Min(S)
               /\ inv[p].sectionLevel = HashesAt(c, Min(S))
          /\ ~Located(p) =>
               /\ inv[p].llmCalls = <<>>
               /\ WritesBy(p) = <<>>

\* the files the note links of the plan read by p resolve to, NoFile included
LinkDestinations(p) ==
  LET paths == linkPaths(inv[p].content)
  IN  [k \in 1..Len(paths) |-> getFirstLinkpathDest(dest, paths[k])]

IsMarkdown(file) == file # NoFile /\ file.extension = "md"

\* the shopping-list invocation p is past findLinkedRecipeFiles
PastLinks(p) == Located(p) /\ inv[p].pc \in {"s_recipes", "s_llm", "s_write", "done"}

\* C10: links that do not resolve to a markdown file are dropped without a
\* notice and the others are kept, in order; the 'No linked recipe files'
\* notice is shown, and the workflow stops, only when no link resolves to a
\* markdown file.
C10_UnresolvedLinksAreDropped ==
  \A p \in Invocations :
    PastLinks(p) =>
      LET kept == SelectSeq(LinkDestinations(p), IsMarkdown)
      IN  /\ HasNotice(p, "No linked recipe files found in the meal plan.")
               <=> kept = <<>>
          /\ kept # <<>> =>
               /\ inv[p].recipeFiles = kept
               /\ inv[p].pc # "done" => inv[p].notices = <<>>
               /\ Len(inv[p].notices) <= 1

\* C10 witness: the plan links a note that does not resolve to a markdown
\* file and one that does, and the shopping list was written.
C10_Witness ==
  \E p \in Invocations :
    /\ PastLinks(p)
    /\ \E k \in 1..Len(LinkDestinations(p)) : ~IsMarkdown(LinkDestinations(p)[k])
    /\ \E k \in 1..Len(LinkDestinations(p)) : IsMarkdown(LinkDestinations(p)[k])
    /\ Len(WritesBy(p)) = 1
    /\ inv[p].notices = <<Notice("Shopping list updated from linked recipes.")>>

\* the matches of the link pattern in the plan read by p that no '!' precedes
NoteLinkMatches(p) ==
  SelectSeq(WikiLinkMatches(inv[p].content, 0),
            LAMBDA m : m.index = 0 \/ inv[p].content[m.index] # "!")

\* C11: findLinkedRecipeFiles looks every distinct target path of the note
\* links up exactly once, whatever the aliases and headings of the links, and
\* no note is listed twice in the files it returns.
C11_OneLookupAndOneEntryPerNote ==
  \A p \in Invocations :
    PastLinks(p) =>
      LET ms == NoteLinkMatches(p)
          L  == inv[p].lookups
          fs == inv[p].recipeFiles
      IN  /\ \A k \in 1..Len(ms) :
               Cardinality({j \in 1..Len(L) : L[j].linkpath = ms[k].path}) = 1
          /\ \A j \in 1..Len(L) : \E k \in 1..Len(ms) : ms[k].path = L[j].linkpath
          /\ \A j, k \in 1..Len(fs) : fs[j] = fs[k] => j = k

\* a note link without a bracket inside it starts at offset i: "[[", a path,
\* optionally '#' and a heading, optionally '|' and an alias, then "]]";
\* gives the offset one past the path, -1 when no such link starts at i
WellFormedLinkAt(c, i) ==
  LET g == RunEnd(c, i + 2, {"]", "|", "#", "["})
      h == IF LitAt(c, g, <<"#">>) THEN RunEnd(c, g + 1, {"]", "|", "["}) ELSE g
      a == IF LitAt(c, h, <<"|">>) THEN RunEnd(c, h + 1, {"]", "["}) ELSE h
  IN  IF /\ LitAt(c, i, <<"[","[">>)
         /\ g > i + 2
         /\ (LitAt(c, h, <<"|">>) => a > h + 1)
         /\ LitAt(c, a, <<"]","]">>)
      THEN g ELSE -1

\* no '!' stands right before offset i
NotEmbedAt(c, i) == i = 0 \/ c[i] # "!"

\* C12: every lookup of findLinkedRecipeFiles is for the path of a [[...]]
\* occurrence that no '!' precedes and every returned file comes from such a
\* lookup, and the path of every well-formed [[path]], [[path#heading]] or
\* [[path|alias]] occurrence that no '!' precedes is looked up.
C12_EmbedsAreNotLinksAndLinksAreLookedUp ==
  \A p \in Invocations :
    PastLinks(p) =>
      LET c == inv[p].content
          L == inv[p].lookups
          I == 0..(Len(c) - 1)
      IN  /\ \A j \in 1..Len(L) : \E i \in I :
               /\ WikiLinkAt(c, i)[1] > i
               /\ NotEmbedAt(c, i)
               /\ L[j].linkpath = Slice(c, i + 2, WikiLinkAt(c, i)[2])
          /\ \A k \in 1..Len(inv[p].recipeFiles) : \E j \in 1..Len(L) :
               inv[p].recipeFiles[k] = getFirstLinkpathDest(dest, L[j].linkpath)
          /\ \A i \in I :
               (WellFormedLinkAt(c, i) > i /\ NotEmbedAt(c, i)) =>
                 \E j \in 1..Len(L) :
                   L[j].linkpath = Slice(c, i + 2, WellFormedLinkAt(c, i))

\* the image invocation p has the matches of findImageLinks, sorted, and has
\* not yet handled any of them
HasFreshMatches(p) ==
  /\ inv[p].workflow = "extract"
  /\ inv[p].pc = "x_resolve"
  /\ inv[p].lookups = <<>>
  /\ inv[p].llmCalls = <<>>

\* the bare path of the embed that starts at offset start: in ![alt](target)
\* the text after "](" up to the first whitespace or ')', in ![[target]] the
\* text after "![[" up to the first '#', '|' or ']'
BarePathOfEmbedAt(c, start) ==
  LET j == RunEnd(c, start + 2, {"]"})
  IN  IF LitAt(c, j, <<"]","(">>)
      THEN Slice(c, j + 2, RunEnd(c, j + 2, WhiteSpace \cup {")"}))
      ELSE Slice(c, start + 3, RunEnd(c, start + 3, {"#", "|", "]"}))

\* C13: every match of findImageLinks starts at a '!' followed by '[' and its
\* linkPath is the bare path of that embed, without heading, alias or title;
\* nothing that does not start with "![" (a plain link) is a match.
C13_MatchesStartAtBangWithBarePath ==
  \A p \in Invocations :
    HasFreshMatches(p) =>
      \A k \in 1..Len(inv[p].matches) :
        LET c == inv[p].content
            m == inv[p].matches[k]
        IN  /\ m.start \in 0..(Len(c) - 2)
            /\ c[m.start + 1] = "!"
            /\ c[m.start + 2] = "["
            /\ m.linkPath = BarePathOfEmbedAt(c, m.start)
            /\ m.linkPath # <<>>

\* C13 witness: a note with a plain link where the scanner found a
\* double-bracket embed with a heading and an alias that starts after other
\* text, and a markdown embed with a title.
C13_Witness ==
  \E p \in Invocations :
    /\ HasFreshMatches(p)
    /\ \E i \in 0..(Len(inv[p].content) - 1) :
         LitAt(inv[p].content, i, <<"[","t","]","(","q",")">>) /\ NotEmbedAt(inv[p].content, i)
    /\ \E k \in 1..Len(inv[p].matches) :
         LET m == inv[p].matches[k]
         IN  /\ m.start > 0
             /\ LitAt(inv[p].content, m.start, <<"!","[","[">>)
             /\ LitAt(inv[p].content, m.start + 3 + Len(m.linkPath), <<"#">>)

\* the image invocation p read the note and the scanner found no match in it
FoundNoImage(p) ==
  /\ activeFile # NoFile
  /\ activeFile.extension = "md"
  /\ inv[p].outcome = "returned"
  /\ findImageLinks(vault[activeFile.path]) = <<>>

\* C14: an image invocation with no active file, with an active file that is
\* not markdown, or on a note in which no image match is found ends with
\* exactly one notice, no LLM call, no request and no vault.modify call.
C14_NothingToDoGivesOneNoticeOnly ==
  \A p \in Invocations :
    ( /\ Finished(p, "extract")
      /\ \/ activeFile = NoFile
         \/ activeFile.extension # "md"
         \/ FoundNoImage(p) )
    => /\ Len(inv[p].notices) = 1
       /\ inv[p].notices[1].text =
            IF FoundNoImage(p) THEN "No image attachments found in this file."
            ELSE "Open a markdown file to extract ingredients."
       /\ inv[p].llmCalls = <<>>
       /\ inv[p].requests = <<>>
       /\ WritesBy(p) = <<>>

\* C14 witness: the image command ended on a markdown note that has note
\* links and no image.
C14_Witness ==
  \E p \in Invocations :
    /\ Finished(p, "extract")
    /\ FoundNoImage(p)
    /\ inv[p].content = BasePlan
    /\ linkPaths(inv[p].content) # <<>>

\* the targets that the image invocation p has passed to resolveImageFile so
\* far: the loop takes the matches in descending start order, and the match
\* at the head of the list has been resolved once the loop is past its
\* resolveImageFile call or has stopped on it
ResolvedTargets(p) ==
  LET all  == SortByStartDescending(findImageLinks(inv[p].content))
      left == Len(inv[p].matches)
      n    == Len(all) - left
                + (IF left > 0 /\ inv[p].pc # "x_resolve" THEN 1 ELSE 0)
  IN  [k \in 1..n |-> all[k].linkPath]

\* the text with every letter in lower case
ToLowerCase(t) ==
  [k \in 1..Len(t) |->
     IF \E i \in 1..26 : UpperCase[i] = t[k]
     THEN LowerCase[CHOOSE i \in 1..26 : UpperCase[i] = t[k]] ELSE t[k]]

\* a target that is blank, an http(s) URL in any case, or a data URL
IsBlankOrUrl(target) ==
  LET t == trim(target)
  IN  \/ Len(t) = 0
      \/ LitAt(ToLowerCase(t), 0, <<"h","t","t","p",":","/","/">>)
      \/ LitAt(ToLowerCase(t), 0, <<"h","t","t","p","s",":","/","/">>)
      \/ LitAt(t, 0, <<"d","a","t","a",":">>)

IsLookedUpTarget(target) == ~IsBlankOrUrl(target)

\* the image invocation p stopped on the target at the head of its list
StoppedOnAttachment(p) ==
  /\ Finished(p, "extract")
  /\ HasNotice(p, "Attachment not found: ")

\* C15: resolveImageFile makes no lookup for a target that is blank, an
\* http(s) URL in any case or a data URL, and returns null for it (the loop
\* stops with 'Attachment not found'); for every other target it makes
\* exactly one lookup.
C15_NoLookupForBlankOrUrlOneForOthers ==
  \A p \in Invocations :
    inv[p].workflow = "extract" =>
      LET ts == ResolvedTargets(p)
      IN  /\ Len(inv[p].lookups) = Len(SelectSeq(ts, IsLookedUpTarget))
          /\ (Len(ts) > 0 /\ IsBlankOrUrl(ts[Len(ts)])) => StoppedOnAttachment(p)
          /\ \A k \in 1..(Len(ts) - 1) : IsLookedUpTarget(ts[k])

\* C15 witness: the loop looked one target up and got its text, then stopped
\* on an upper-case https URL without another lookup.
C15_Witness ==
  \E p \in Invocations :
    /\ StoppedOnAttachment(p)
    /\ Len(ResolvedTargets(p)) = 2
    /\ Len(inv[p].lookups) = 1
    /\ inv[p].notices[1].linkPath = <<"H","T","T","P","S",":","/","/","e">>

\* the text before the first '|' or '#' of t
BeforeAliasAndHeading(t) == Slice(t, 0, RunEnd(t, 0, {"|", "#"}))

\* C16: each lookup of resolveImageFile gets the trimmed target up to its
\* first '|' or '#' (so neither occurs in it) and the path of the source
\* file; the loop goes on with the file the lookup gave and stops with
\* 'Attachment not found' when it gave none; resolveImageFile never throws
\* (an invocation that made a lookup throws only in vault.modify).
C16_LookupGetsCleanedPathAndSource ==
  \A p \in Invocations :
    inv[p].workflow = "extract" =>
      LET ts == SelectSeq(ResolvedTargets(p), IsLookedUpTarget)
          L  == inv[p].lookups
          n  == Len(ResolvedTargets(p))
      IN  /\ Len(L) = Len(ts)
          /\ \A j \in 1..Len(L) :
               /\ L[j].linkpath = BeforeAliasAndHeading(trim(ts[j]))
               /\ \A i \in 1..Len(L[j].linkpath) : L[j].linkpath[i] \notin {"|", "#"}
               /\ L[j].sourcePath = activeFile.path
          /\ (n > 0 /\ IsLookedUpTarget(ResolvedTargets(p)[n])) =>
               LET destination == getFirstLinkpathDest(dest, L[Len(L)].linkpath)
               IN  /\ destination = NoFile <=> StoppedOnAttachment(p)
                   /\ inv[p].pc \in {"x_binary", "x_llm"} =>
                        inv[p].imageFile = destination
          /\ inv[p].outcome = "threw" => (L = <<>> \/ WritesBy(p) # <<>>)

\* C16 witness: the target q#h|x was looked up as q and the loop goes on with
\* the file q.jpg.
C16_Witness ==
  \E p \in Invocations :
    /\ inv[p].workflow = "extract"
    /\ inv[p].pc = "x_binary"
    /\ Head(inv[p].matches).linkPath = <<"q","#","h","|","x">>
    /\ inv[p].lookups[Len(inv[p].lookups)].linkpath = <<"q">>
    /\ inv[p].imageFile = BaseDest[<<"q">>]

\* a text of whitespace only
IsBlankText(t) == \A i \in 1..Len(t) : t[i] \in WhiteSpace

\* the LLM calls of p that got past the endpoint check and the model check
CallsPastSettingsChecks(p) ==
  SelectSeq(inv[p].llmCalls,
            LAMBDA call : ~IsBlankText(settings.llmEndpoint) /\ ~IsBlankText(call.model))

\* C17: a callLlm call with a blank endpoint throws 'LLM endpoint is empty';
\* else with a blank model it throws 'Model is empty'; in both cases without
\* a request. Otherwise it issues exactly one POST, and when that is answered
\* a status other than 200 gives 'LLM request failed (<status>)', else a
\* content that is not a string gives 'Unexpected LLM response shape', else
\* the content is returned as it is. No request is issued twice.
C17_ChecksInFixedOrder ==
  \A p \in Invocations :
    /\ Len(inv[p].requests) = Len(CallsPastSettingsChecks(p))
    /\ \A k \in 1..Len(inv[p].llmCalls) :
         LET call == inv[p].llmCalls[k]
         IN  IF IsBlankText(settings.llmEndpoint)
               THEN /\ call.threw
                    /\ call.error = Error("LLM endpoint is empty", <<>>, 0)
                    /\ call.requests = <<>>
             ELSE IF IsBlankText(call.model)
               THEN /\ call.threw
                    /\ call.error = Error("Model is empty", <<>>, 0)
                    /\ call.requests = <<>>
             ELSE /\ Len(call.requests) = 1
                  /\ call.requests[1].method = "POST"
                  /\ call.http.kind = "response" =>
                       IF call.http.status # 200
                         THEN /\ call.threw
                              /\ call.error =
                                   Error("LLM request failed", <<>>, call.http.status)
                       ELSE IF ~call.http.isString
                         THEN /\ call.threw
                              /\ call.error =
                                   Error("Unexpected LLM response shape", <<>>, 0)
                       ELSE /\ ~call.threw
                            /\ call.value = call.http.content

\* C17 witness: with both the endpoint and the model blank, a call threw
\* 'LLM endpoint is empty' and no request was issued.
C17_Witness ==
  \E p \in Invocations :
    /\ Len(inv[p].llmCalls) = 1
    /\ IsBlankText(settings.llmEndpoint)
    /\ IsBlankText(inv[p].llmCalls[1].model)
    /\ inv[p].llmCalls[1].error.text = "LLM endpoint is empty"
    /\ inv[p].requests = <<>>

\* v is the text t without the whitespace at its two ends, and is not empty
IsTrimOf(v, t) ==
  /\ Len(v) > 0
  /\ v[1] \notin WhiteSpace
  /\ v[Len(v)] \notin WhiteSpace
  /\ \E a \in 0..(Len(t) - Len(v)) :
       /\ Slice(t, a, a + Len(v)) = v
       /\ IsBlankText(Slice(t, 0, a))
       /\ IsBlankText(SliceFrom(t, a + Len(v)))

\* C18: a request of callLlm has an Authorization header exactly when the
\* API key is not blank, and its value is then 'Bearer ' followed by the key
\* without the whitespace around it.
C18_AuthorizationIffKeyNotBlank ==
  \A p \in Invocations :
    \A k \in 1..Len(inv[p].requests) :
      LET h == inv[p].requests[k].headers
      IN  /\ "Authorization" \in DOMAIN h <=> ~IsBlankText(settings.apiKey)
          /\ "Authorization" \in DOMAIN h =>
               /\ Slice(h["Authorization"], 0, 7) = <<"B","e","a","r","e","r"," ">>
               /\ IsTrimOf(SliceFrom(h["Authorization"], 7), settings.apiKey)

\* C18 witness: a request was sent with a key that has whitespace around it.
C18_Witness ==
  \E p \in Invocations :
    /\ Len(inv[p].requests) > 0
    /\ settings.apiKey = <<" ","k"," ">>
    /\ inv[p].requests[1].headers["Authorization"] = <<"B","e","a","r","e","r"," ","k">>

\* the text of the recipe file of the k-th block of p as it is in the vault
RawRecipe(p, k) == vault[inv[p].recipeContents[k][2].text]

\* the text of that recipe as it goes into the user message
SanitizedRecipe(p, k) == inv[p].recipeContents[k][4].text

\* none of ![[...]], ![...](...) and <img ...> occurs in s
HasNoEmbedSyntax(s) ==
  \A i \in 0..(Len(s) - 1) :
    /\ StripWikiAt(s, i) = -1
    /\ StripMarkdownAt(s, i) = -1
    /\ StripHtmlAt(s, i) = -1

\* C19: a recipe text in which none of the three embed syntaxes occurs is
\* left as it is by stripImageEmbeds and has no match of findImageLinks; a
\* text in which findImageLinks has a match is changed by stripImageEmbeds.
C19_ScannerMatchesAreStripped ==
  \A p \in Invocations :
    \A k \in 1..Len(inv[p].recipeContents) :
      /\ HasNoEmbedSyntax(RawRecipe(p, k)) =>
           /\ SanitizedRecipe(p, k) = RawRecipe(p, k)
           /\ findImageLinks(RawRecipe(p, k)) = <<>>
      /\ findImageLinks(RawRecipe(p, k)) # <<>> =>
           SanitizedRecipe(p, k) # RawRecipe(p, k)

\* C19 witness: a recipe with a markdown embed that the scanner reports, and
\* with other text, was read and the embed is not in the sanitized text.
C19_Witness ==
  \E p \in Invocations :
    \E k \in 1..Len(inv[p].recipeContents) :
      /\ \E j \in 1..Len(findImageLinks(RawRecipe(p, k))) :
           LitAt(RawRecipe(p, k), findImageLinks(RawRecipe(p, k))[j].start,
                 <<"!","[","a","]","(","u",")">>)
      /\ SanitizedRecipe(p, k) = <<"k">>

\* the three removals of stripImageEmbeds applied in the given order
StripInOrder(order, content) ==
  ReplaceAll(order[3], ReplaceAll(order[2], ReplaceAll(order[1], content, 0), 0), 0)

\* the orders in which the three removals can be applied
PassOrders ==
  {o \in [1..3 -> {"wiki", "markdown", "html"}] : \A i, j \in 1..3 : o[i] = o[j] => i = j}

\* C20: applying the three removals in any order gives the sanitized text
\* that stripImageEmbeds gave for the recipe.
C20_PassOrderDoesNotMatter ==
  \A p \in Invocations :
    \A k \in 1..Len(inv[p].recipeContents) :
      \A order \in PassOrders :
        StripInOrder(order, RawRecipe(p, k)) = SanitizedRecipe(p, k)

\* a text without whitespace at either end
IsTrimmedText(t) == Len(t) = 0 \/ (t[1] \notin WhiteSpace /\ t[Len(t)] \notin WhiteSpace)

\* C21: whatever was typed into the settings tab, llmEndpoint and apiKey have
\* no whitespace at either end, imageModel and textModel are not blank (a
\* blank entry gives 'gpt-5.2', any other its trimmed text), a prompt is the
\* text typed into its text area, character by character, and there has been
\* one saveSettings call for each edit, with the settings as they then were.
C21_TabStoresTrimmedOrVerbatimAndSaves ==
  /\ tab.saves = tab.edits
  /\ IsTrimmedText(settings.llmEndpoint)
  /\ IsTrimmedText(settings.apiKey)
  /\ ~IsBlankText(settings.imageModel)
  /\ ~IsBlankText(settings.textModel)
  /\ tab.edits > 0 =>
       LET f == tab.last.field
           v == tab.last.value
       IN  /\ tab.data = settings
           /\ f \in TextAreaSettings => settings[f] = v
           /\ f \in TextSettings =>
                IF ~IsBlankText(v) THEN IsTrimOf(settings[f], v)
                ELSE settings[f] = IF f \in {"imageModel", "textModel"}
                                   THEN <<"g","p","t","-","5",".","2">> ELSE <<>>

\* C21 witness: a prompt was typed with whitespace around it and kept so,
\* then a model was typed as whitespace only and became 'gpt-5.2'.
C21_Witness ==
  /\ tab.edits >= 2
  /\ tab.last = [field |-> "imageModel", value |-> <<" ","\t">>]
  /\ settings.imageModel = <<"g","p","t","-","5",".","2">>
  /\ settings.shoppingListPrompt = <<"\n"," ","o"," ","p">>
  /\ tab.saves = tab.edits

\* the image matches of a text by ascending start offset
MatchesAscending(c) ==
  LET ms == findImageLinks(c)
      rank(k) == Cardinality({j \in 1..Len(ms) : ms[j].start < ms[k].start}) + 1
  IN  [r \in 1..Len(ms) |-> ms[CHOOSE k \in 1..Len(ms) : rank(k) = r]]

\* the text c with texts[k] and a blank line put right before offset
\* starts[k] of c, for ascending starts, built from offset from on
RECURSIVE Weave(_, _, _, _)
Weave(c, from, starts, texts) ==
  IF starts = <<>> THEN SliceFrom(c, from)
  ELSE Slice(c, from, Head(starts)) \o Head(texts) \o <<"\n", "\n">>
         \o Weave(c, Head(starts), Tail(starts), Tail(texts))

BuiltFrom(q, base, data) ==
  /\ inv[q].content = base
  /\ IF inv[q].workflow = "extract"
     THEN LET asc == MatchesAscending(base)
              n   == Len(asc)
          IN  /\ Len(inv[q].llmCalls) = n
              /\ data = Weave(base, 0, [r \in 1..n |-> asc[r].start],
                           [r \in 1..n |-> trim(inv[q].llmCalls[n + 1 - r].value)])
     ELSE LET m == headerMatch(base)
          IN  /\ m.index = inv[q].sectionStart
              /\ startsWith(data, Slice(base, 0, m.index))
              /\ LET tail == SliceFrom(base, inv[q].sectionEnd)
                 IN  LitAt(data, Len(data) - Len(tail), tail)

\* the k-th vault.modify call was made by an invocation that then returned
WriteReturned(k) == inv[modifyCalls[k].by].outcome = "returned"

\* C23 (sequential half): when an invocation read the note after another
\* invocation's write had returned, the text it writes is built from the
\* text the earlier one wrote, so the earlier change is kept.  The other
\* half, an interleaving that loses the first write, is C23_Witness.
C23_SequentialRunsKeepEarlierChange ==
  \A i, j \in 1..Len(modifyCalls) :
    (/\ i < j
     /\ modifyCalls[i].by # modifyCalls[j].by
     /\ WriteReturned(i)
     /\ inv[modifyCalls[j].by].readAfter >= i)
    => BuiltFrom(modifyCalls[j].by, modifyCalls[i].data, modifyCalls[j].data)

\* C23 witness (lost update): two extractions both read the note before
\* either wrote, both writes returned, and the note now holds the second
\* writer's text only: it is built from the original note and has no
\* character of the first writer's reply.
C23_Witness ==
  /\ Len(modifyCalls) = 2
  /\ modifyCalls[1].by # modifyCalls[2].by
  /\ WriteReturned(1) /\ WriteReturned(2)
  /\ LET first == modifyCalls[1].by
         second == modifyCalls[2].by
     IN  /\ inv[first].workflow = "extract" /\ inv[second].workflow = "extract"
         /\ inv[first].readAfter = 0 /\ inv[second].readAfter = 0
         /\ inv[first].content = inv[second].content
         /\ vault[activeFile.path] = modifyCalls[2].data
         /\ BuiltFrom(second, inv[first].content, modifyCalls[2].data)
         /\ trim(inv[first].llmCalls[1].value) = <<"R">>
         /\ \A k \in 1..Len(vault[activeFile.path]) : vault[activeFile.path][k] # "R"

\* the sequential counterpart of the lost update: the second extraction read
\* the note the first one wrote, and both replies are in the note
C23_SequentialWitness ==
  /\ Len(modifyCalls) = 2
  /\ modifyCalls[1].by # modifyCalls[2].by
  /\ WriteReturned(1) /\ WriteReturned(2)
  /\ inv[modifyCalls[2].by].readAfter = 1
  /\ inv[modifyCalls[2].by].workflow = "extract"
  /\ inv[modifyCalls[1].by].workflow = "extract"
  /\ trim(inv[modifyCalls[1].by].llmCalls[1].value) = <<"R">>
  /\ trim(inv[modifyCalls[2].by].llmCalls[1].value) = <<"V">>
  /\ \E k \in 1..Len(vault[activeFile.path]) : vault[activeFile.path][k] = "R"

\* the preconditions of the shopping-list command that fail for the note
\* text c, in the order of the list: 1 active markdown file, 2 section
\* present, 3 a link resolved to a markdown file, 4 non-blank prompt
FailingPreconditions(c) ==
  {k \in 1..4 :
     \/ k = 1 /\ (activeFile = NoFile \/ activeFile.extension # "md")
     \/ k = 2 /\ headerMatch(c).index = -1
     \/ k = 3 /\ \A j \in 1..Len(linkPaths(c)) :
                    ~IsMarkdown(getFirstLinkpathDest(dest, linkPaths(c)[j]))
     \/ k = 4 /\ trim(settings.shoppingListPrompt) = <<>>}

\* the notice of each precondition
PreconditionNotice(k) ==
  CASE k = 1 -> Notice("Open a meal plan markdown file to build a shopping list.")
    [] k = 2 -> Notice("No '# Need to buy' section found in the active file.")
    [] k = 3 -> Notice("No linked recipe files found in the meal plan.")
    [] k = 4 -> Notice("Shopping list prompt is empty.")

\* C24: a shopping-list run that returned, on a note and settings for which
\* some precondition fails, showed the notice of the first failing
\* precondition in the order file, section, links, prompt, and no other
\* notice, made no LLM call and no HTTP request and wrote nothing; when no
\* precondition fails it went on to the LLM call.
C24_FirstFailingPreconditionOnly ==
  \A p \in Invocations :
    (Finished(p, "shopping") /\ inv[p].outcome = "returned") =>
      LET failing == FailingPreconditions(vault[PlanPath])
      IN  IF failing # {} /\ WritesBy(p) = <<>>
          THEN /\ inv[p].notices = <<PreconditionNotice(Min(failing))>>
               /\ inv[p].llmCalls = <<>>
               /\ inv[p].requests = <<>>
               /\ modifyCalls = <<>>
          ELSE /\ FailingPreconditions(inv[p].content) = {}
               /\ Len(inv[p].llmCalls) = 1

\* C24 witness: the links and the prompt fail at once, the section is there,
\* and the run has shown the notice about the links.
C24_Witness ==
  \E p \in Invocations :
    /\ Finished(p, "shopping")
    /\ FailingPreconditions(inv[p].content) = {3, 4}
    /\ inv[p].notices = <<PreconditionNotice(3)>>

\* the offset where the line that holds offset i ends: the next "\n" or
\* the end of the text
LineEndFrom(c, i) == Min({k \in i..Len(c) : k = Len(c) \/ c[k + 1] = "\n"})

\* C25: a located section [start, end) has 0 <= start < end <= length of the
\* note; it starts at a line start, the line it starts on (the heading line)
\* lies wholly inside it, and end is the length of the note or the first
\* character of a later line.
C25_SpanHoldsItsHeadingLine ==
  \A p \in Invocations :
    Located(p) =>
      LET c == inv[p].content
          start == inv[p].sectionStart
          end == inv[p].sectionEnd
      IN  /\ 0 <= start /\ start < end /\ end <= Len(c)
          /\ AtLineStart(c, start)
          /\ LineEndFrom(c, start) <= end
          /\ inv[p].afterHeaderIndex <= end
          /\ \/ end = Len(c)
             \/ AtLineStart(c, end) /\ end > LineEndFrom(c, start)

\* C25 witness: a section in the middle of the note, after other text and
\* before a later heading.
C25_Witness ==
  \E p \in Invocations :
    /\ Located(p)
    /\ inv[p].sectionStart > 0
    /\ inv[p].sectionEnd < Len(inv[p].content)
    /\ inv[p].sectionEnd = LineEndFrom(inv[p].content, inv[p].sectionStart) + 1

\* the image command p has read and scanned the note
Scanned(p) ==
  /\ inv[p].workflow = "extract"
  /\ \/ inv[p].pc = "x_resolve" /\ inv[p].llmCalls = <<>> /\ inv[p].notices = <<>>
     \/ HasNotice(p, "No image attachments found in this file.")

\* C26: at no offset of a scanned note do the wiki embed pattern and the
\* markdown embed pattern both match, and the matches findImageLinks
\* returned (here after the sort) have pairwise distinct start offsets.
C26_MatchStartsAreDistinct ==
  \A p \in Invocations :
    Scanned(p) =>
      LET c == inv[p].content
          ms == inv[p].matches
      IN  /\ \A i \in 0..(Len(c) - 1) :
               ~(WikiImageAt(c, i)[1] > i /\ MarkdownImageAt(c, i)[1] > i)
          /\ \A j, k \in 1..Len(ms) : j # k => ms[j].start # ms[k].start
          /\ Len(ms) = Len(findImageLinks(c))

\* C26 witness: a note where a markdown embed was found that opens with
\* "![[", as a wiki embed does.
C26_Witness ==
  \E p \in Invocations :
    /\ Scanned(p)
    /\ Len(inv[p].matches) >= 1
    /\ \E i \in 0..(Len(inv[p].content) - 3) :
         /\ MarkdownImageAt(inv[p].content, i)[1] > i
         /\ LitAt(inv[p].content, i, <<"!","[","[">>)

\* the files of a list without the repetitions, in order of first occurrence
RECURSIVE FirstOccurrences(_)
FirstOccurrences(fs) ==
  IF fs = <<>> THEN <<>>
  ELSE LET front == FirstOccurrences(SubSeq(fs, 1, Len(fs) - 1))
           last  == fs[Len(fs)]
       IN  IF \E k \in 1..Len(front) : front[k] = last THEN front
           ELSE Append(front, last)

\* C27: when the shopping-list command has made its LLM call, it made one
\* call, every markdown file a link of the note resolves to was read exactly
\* once before it, and the user message is the template line, the trimmed
\* section, and one block ("---", "File: " and the path, the stripped text)
\* per such file, in the order in which the links to the files first occur.
C27_EachRecipeReadOnceInLinkOrder ==
  \A p \in Invocations :
    (inv[p].workflow = "shopping" /\ inv[p].llmCalls # <<>>) =>
      LET c == inv[p].content
          files == FirstOccurrences(findLinkedRecipeFiles(dest, c))
          section == trim(Slice(c, inv[p].sectionStart, inv[p].sectionEnd))
      IN  /\ Len(inv[p].llmCalls) = 1
          /\ inv[p].reads = [k \in 1..Len(files) |-> files[k].path]
          /\ inv[p].llmCalls[1].messages =
               shoppingMessages(trim(settings.shoppingListPrompt), section,
                 [k \in 1..Len(files) |-> recipeBlock(files[k], vault[files[k].path])])

\* C28: when the reply to a shopping-list run, trimmed, begins with the
\* heading line of the located section (its '#' signs and its text), the run
\* accepts it: it writes the note with the section replaced by the trimmed
\* reply and shows the notice of success, whatever the level of the heading.
C28_ReplyWithSameHeadingIsAccepted ==
  \A p \in Invocations :
    (/\ Finished(p, "shopping")
     /\ inv[p].outcome = "returned"
     /\ Len(inv[p].llmCalls) = 1
     /\ ~inv[p].llmCalls[1].threw
     /\ startsWith(trim(inv[p].llmCalls[1].value),
                   Slice(inv[p].content, inv[p].sectionStart, inv[p].afterHeaderIndex)))
    => /\ HasNotice(p, "Shopping list updated from linked recipes.")
       /\ Len(WritesBy(p)) = 1
       /\ WritesBy(p)[1].data =
            replaceSection(inv[p].content, inv[p].sectionStart, inv[p].sectionEnd,
                           trim(inv[p].llmCalls[1].value))

\* C29: when a shopping-list run wrote the note and a second run, which read
\* the note the first one wrote, got the same reply and wrote too, the
\* second run wrote the same text as the first, and the text that followed
\* the section in the original note is still at the end of it.
C29_SecondRunWritesSameDocument ==
  \A i, j \in 1..Len(modifyCalls) :
    LET first == modifyCalls[i].by
        second == modifyCalls[j].by
    IN  (/\ i < j
         /\ first # second
         /\ inv[first].workflow = "shopping" /\ inv[second].workflow = "shopping"
         /\ WriteReturned(i) /\ WriteReturned(j)
         /\ inv[second].readAfter >= i
         /\ inv[second].content = modifyCalls[i].data
         /\ inv[second].llmCalls[1].value = inv[first].llmCalls[1].value)
        => /\ modifyCalls[j].data = modifyCalls[i].data
           /\ LET tail == SliceFrom(inv[first].content, inv[first].sectionEnd)
              IN  LitAt(modifyCalls[j].data, Len(modifyCalls[j].data) - Len(tail), tail)

\* C30: every vault.modify call names the active file and no other file of
\* the vault has changed; an invocation makes at most one such call, and
\* when it has made it the invocation is over (so no LLM call follows a
\* write), it made at least one LLM call, one per image in the image command
\* and one in the shopping-list command, and every LLM call it made
\* returned a text that is not blank.
C30_OneWriteAfterAllLlmCalls ==
  /\ \A k \in 1..Len(modifyCalls) : modifyCalls[k].file = activeFile
  /\ \A path \in DOMAIN vault \ {PlanPath} : vault[path] = BaseRecipes[path]
  /\ \A p \in Invocations :
       /\ Len(WritesBy(p)) <= 1
       /\ WritesBy(p) # <<>> =>
            /\ inv[p].pc = "done"
            /\ activeFile = PlanFile
            /\ Len(inv[p].llmCalls) =
                 IF inv[p].workflow = "extract"
                 THEN Len(findImageLinks(inv[p].content)) ELSE 1
            /\ \A k \in 1..Len(inv[p].llmCalls) :
                 /\ ~inv[p].llmCalls[k].threw
                 /\ inv[p].llmCalls[k].http.status = 200
                 /\ trim(inv[p].llmCalls[k].value) # <<>>

\* C30 witness: an image command wrote the note after two LLM calls.
C30_Witness ==
  \E p \in Invocations :
    /\ inv[p].workflow = "extract"
    /\ Len(WritesBy(p)) = 1
    /\ Len(inv[p].llmCalls) = 2
    /\ vault[PlanPath] = WritesBy(p)[1].data

====
